---- MODULE Spec2Model ----
(***************************************************************************)
(* Model of main.py of todoist-gsheet-export: a script that, for each of   *)
(* the last seven UTC days, looks up the day's row in a Google Sheet and,  *)
(* when column E of that row is empty, writes the day's completed Todoist  *)
(* tasks into it.                                                          *)
(*                                                                         *)
(* Python strings that the program slices or concatenates are sequences of *)
(* one-character strings.  Python's None is the empty option <<>> and a    *)
(* value v is <<v>> wherever a variable may hold either.                   *)
(***************************************************************************)
EXTENDS Integers, Sequences, FiniteSets, TLC

(***************************************************************************)
(* Bounds of the model and constants of the program.                       *)
(***************************************************************************)
\* how many runs of the script are launched one after the other
MaxRuns == 2
\* the largest max_retries argument given to retry_api_call on its own
MaxRetriesArg == 4
\* the largest delay argument given to retry_api_call on its own
MaxDelayArg == 2
\* retry_api_call(func, max_retries=3, delay=1)
DefaultMaxRetries == 3
DefaultDelay == 1
\* for days_ago in range(1, 8)
FirstDaysAgo == 1
RangeStop == 8
\* the most grid rows of a tab where the tab's rows are enumerated
MaxRows == 3
\* the most completed tasks of a day where the task lists are enumerated
MaxTasks == 3
\* how many times the UTC date changes while a run is under way
MaxMidnights == 1

Procs == 1..MaxRuns

None == <<>>
Some(v) == <<v>>

(***************************************************************************)
(* Strings.                                                                *)
(***************************************************************************)
Digits == <<"0", "1", "2", "3", "4", "5", "6", "7", "8", "9">>

\* "%02d" % n
Pad2(n) == <<Digits[((n \div 10) % 10) + 1], Digits[(n % 10) + 1]>>

\* "%04d" % n
Pad4(n) == <<Digits[((n \div 1000) % 10) + 1], Digits[((n \div 100) % 10) + 1],
             Digits[((n \div 10) % 10) + 1], Digits[(n % 10) + 1]>>

\* "%06d" % n
Pad6(n) == <<Digits[((n \div 100000) % 10) + 1], Digits[((n \div 10000) % 10) + 1]>>
           \o Pad4(n % 10000)

\* str(n) of a non-negative int
RECURSIVE DecStr(_)
DecStr(n) == IF n < 10 THEN <<Digits[n + 1]>>
             ELSE DecStr(n \div 10) \o <<Digits[(n % 10) + 1]>>

\* the items of a sequence
Range(f) == {f[i] : i \in DOMAIN f}

\* s[lo:hi] of Python, 0-based, hi exclusive, clipped to the string
Slice(s, lo, hi) ==
    LET h == IF hi > Len(s) THEN Len(s) ELSE hi
    IN  IF lo >= h THEN <<>> ELSE SubSeq(s, lo + 1, h)

\* sep.join(parts)
RECURSIVE Join(_, _)
Join(sep, parts) ==
    IF Len(parts) = 0 THEN <<>>
    ELSE IF Len(parts) = 1 THEN parts[1]
    ELSE parts[1] \o sep \o Join(sep, Tail(parts))

(***************************************************************************)
(* Dates: datetime.date as a record [year, month, day]; date arithmetic    *)
(* goes through the proleptic Gregorian ordinal as datetime does.          *)
(***************************************************************************)
IsLeap(y) == (y % 4 = 0) /\ ((y % 100 # 0) \/ (y % 400 = 0))

DaysInMonth(y, m) ==
    IF m = 2 THEN (IF IsLeap(y) THEN 29 ELSE 28)
    ELSE IF m \in {4, 6, 9, 11} THEN 30 ELSE 31

\* the days of the year before the first of month m: those of a common year
\* and, after February of a leap year, one more
DaysBeforeMonth(y, m) ==
    <<0, 31, 59, 90, 120, 151, 181, 212, 243, 273, 304, 334>>[m]
    + (IF m > 2 /\ IsLeap(y) THEN 1 ELSE 0)

DaysBeforeYear(y) ==
    LET p == y - 1 IN p * 365 + (p \div 4) - (p \div 100) + (p \div 400)

\* date.toordinal()
ToOrdinal(d) == DaysBeforeYear(d.year) + DaysBeforeMonth(d.year, d.month) + d.day

\* date.fromordinal(n)
FromOrdinal(n) ==
    LET n0   == n - 1
        n400 == n0 \div 146097
        r400 == n0 % 146097
        n100 == r400 \div 36524
        r100 == r400 % 36524
        n4   == r100 \div 1461
        r4   == r100 % 1461
        n1   == r4 \div 365
        r1   == r4 % 365
        y    == n400 * 400 + n100 * 100 + n4 * 4 + n1 + 1
    IN  IF n1 = 4 \/ n100 = 4
        THEN [year |-> y - 1, month |-> 12, day |-> 31]
        ELSE LET m == CHOOSE k \in 1..12 :
                          /\ DaysBeforeMonth(y, k) <= r1
                          /\ r1 < DaysBeforeMonth(y, k) + DaysInMonth(y, k)
             IN  [year |-> y, month |-> m, day |-> r1 - DaysBeforeMonth(y, m) + 1]

\* date - datetime.timedelta(days=n)
DateMinusDays(d, n) == FromOrdinal(ToOrdinal(d) - n)

\* date.isoformat()
DateIso(d) == Pad4(d.year) \o <<"-">> \o Pad2(d.month) \o <<"-">> \o Pad2(d.day)

\* the last whole second of a day in the place of datetime.time.max
TimeMax_WholeSecond == [hour |-> 23, minute |-> 59, second |-> 59, microsecond |-> 0]

\* datetime.time.min and datetime.time.max
TimeMin == [hour |-> 0, minute |-> 0, second |-> 0, microsecond |-> 0]
TimeMax == [hour |-> 23, minute |-> 59, second |-> 59, microsecond |-> 999999]

\* time.isoformat(): the fraction is printed only when it is not zero
TimeIso(t) ==
    Pad2(t.hour) \o <<":">> \o Pad2(t.minute) \o <<":">> \o Pad2(t.second)
    \o (IF t.microsecond = 0 THEN <<>> ELSE <<".">> \o Pad6(t.microsecond))

\* datetime.datetime.combine(d, t).isoformat() + 'Z'
DateTimeIsoZ(d, t) == DateIso(d) \o <<"T">> \o TimeIso(t) \o <<"Z">>

(***************************************************************************)
(* The pure functions of main.py.                                          *)
(***************************************************************************)
\* target_date of get_day_iso_range: today's UTC date minus days_ago days
TargetDate(today, n) == DateMinusDays(today, n)

\* get_day_iso_range(days_ago), given the clock's current UTC date
get_day_iso_range(today, n) ==
    [start |-> DateTimeIsoZ(TargetDate(today, n), TimeMin),
     end   |-> DateTimeIsoZ(TargetDate(today, n), TimeMax)]

\* split_date_string(date_iso_string)
split_date_string(s) ==
    [short_year     |-> Slice(s, 2, 4),
     short_month    |-> Slice(s, 5, 7),
     short_iso_date |-> Slice(s, 0, 10)]

month_dict ==
    (<<"0", "1">> :> <<"J", "a", "n">>) @@ (<<"0", "2">> :> <<"F", "e", "b">>) @@
    (<<"0", "3">> :> <<"M", "a", "r">>) @@ (<<"0", "4">> :> <<"A", "p", "r">>) @@
    (<<"0", "5">> :> <<"M", "a", "y">>) @@ (<<"0", "6">> :> <<"J", "u", "n">>) @@
    (<<"0", "7">> :> <<"J", "u", "l">>) @@ (<<"0", "8">> :> <<"A", "u", "g">>) @@
    (<<"0", "9">> :> <<"S", "e", "p">>) @@ (<<"1", "0">> :> <<"O", "c", "t">>) @@
    (<<"1", "1">> :> <<"N", "o", "v">>) @@ (<<"1", "2">> :> <<"D", "e", "c">>)

\* get_tab_name raises KeyError for a month that is no key of month_dict
TabNameRaises(month) == month \notin DOMAIN month_dict

\* get_tab_name(year, month), where it does not raise
get_tab_name(year, month) == month_dict[month] \o <<"-">> \o year

\* the for loop of main, lines 296-299: the 1-based number of the first row
\* whose first cell is iso_date, or -1
RECURSIVE ScanRows(_, _, _)
ScanRows(rows, iso_date, i) ==
    IF i > Len(rows) THEN -1
    ELSE IF Len(rows[i]) > 0 /\ rows[i][1] = iso_date THEN i
    ELSE ScanRows(rows, iso_date, i + 1)

\* the scan with 0 in the place of -1 for a date that has no row
FindRowIndex_Zero(rows, iso_date) ==
    IF ScanRows(rows, iso_date, 1) = -1 THEN 0 ELSE ScanRows(rows, iso_date, 1)

\* the scan without the break of line 299: the last row of the date wins
FindRowIndex_Last(rows, iso_date) ==
    IF \A i \in 1..Len(rows) : ~(Len(rows[i]) > 0 /\ rows[i][1] = iso_date) THEN -1
    ELSE CHOOSE i \in 1..Len(rows) :
             /\ Len(rows[i]) > 0 /\ rows[i][1] = iso_date
             /\ \A j \in (i + 1)..Len(rows) : ~(Len(rows[j]) > 0 /\ rows[j][1] = iso_date)

FindRowIndex(rows, iso_date) == ScanRows(rows, iso_date, 1)

\* cell_to_check = f"{current_tab_name}!E{row_index}"
CellName(tab, row_index) == tab \o <<"!", "E">> \o DecStr(row_index)

\* the range get_rows_from_google_sheet asks for: f"{tab_name}!A1:Z"
RowsRange(tab) == tab \o <<"!", "A", "1", ":", "Z">>

\* the test of line 310 turned round
Truthy_Inverted(opt) == ~(opt # None /\ opt[1] # <<>>)

\* Python truthiness of what get_cell_value returns: None and "" are falsy
Truthy(opt) == opt # None /\ opt[1] # <<>>

\* task.get("content", ""): the default stands in for a missing key only
TaskContent(task) == IF "content" \in DOMAIN task THEN task.content ELSE Some(<<>>)

\* [task.get("content", "") for task in tasks]
TaskContents(tasks) == [i \in 1..Len(tasks) |-> TaskContent(tasks[i])]

\* "; ".join(task_contents) raises TypeError when an item is None
JoinRaises(tasks) == \E i \in 1..Len(tasks) : TaskContent(tasks[i]) = None

\* the separator put after every content, the last included
RECURSIVE EachFollowedBy(_, _)
EachFollowedBy(sep, parts) ==
    IF Len(parts) = 0 THEN <<>> ELSE parts[1] \o sep \o EachFollowedBy(sep, Tail(parts))

FormatTasks_TrailingSep(tasks) ==
    IF Len(tasks) = 0 THEN <<"N", "/", "A">>
    ELSE EachFollowedBy(<<";", " ">>, [i \in 1..Len(tasks) |-> TaskContents(tasks)[i][1]])

\* lines 318-324: the string to insert for the fetched tasks, where the join
\* does not raise
FormatTasks(tasks) ==
    IF Len(tasks) = 0 THEN <<"N", "/", "A">>
    ELSE Join(<<";", " ">>, [i \in 1..Len(tasks) |-> TaskContents(tasks)[i][1]])

(***************************************************************************)
(* The Google Sheets service, as far as the program uses it.  A tab is a   *)
(* sequence of grid rows; of a row the model keeps column A (a) and column *)
(* E (e), the empty string <<>> being an empty cell.                       *)
(***************************************************************************)
HasBang(s) == \E i \in 1..Len(s) : s[i] = "!"
BangAt(s) == CHOOSE i \in 1..Len(s) : s[i] = "!" /\ \A j \in 1..(i - 1) : s[j] # "!"

DigitValue(c) == CHOOSE k \in 0..9 : Digits[k + 1] = c

IsNumber(s) == Len(s) > 0 /\ \A i \in 1..Len(s) : \E k \in 1..10 : Digits[k] = s[i]

RECURSIVE ParseDec(_)
ParseDec(s) == IF Len(s) = 0 THEN 0
               ELSE ParseDec(SubSeq(s, 1, Len(s) - 1)) * 10 + DigitValue(s[Len(s)])

\* an A1 range "Tab!A1:Z" or "Tab!E13", split into its parts
RangeTab(range) == SubSeq(range, 1, BangAt(range) - 1)
RangeCells(range) == SubSeq(range, BangAt(range) + 1, Len(range))
IsCellRef(cells) == Len(cells) >= 2 /\ cells[1] \in {"A", "E"} /\ IsNumber(Tail(cells))

\* a grid row as the API returns it: trailing empty cells are left out
RowValues(r) ==
    IF r.e # <<>> THEN <<r.a, <<>>, <<>>, <<>>, r.e>>
    ELSE IF r.a # <<>> THEN <<r.a>>
    ELSE <<>>

\* the rows up to the last one that holds a value
RECURSIVE TrimRows(_)
TrimRows(rows) ==
    IF Len(rows) = 0 THEN <<>>
    ELSE IF rows[Len(rows)] = <<>> THEN TrimRows(SubSeq(rows, 1, Len(rows) - 1))
    ELSE rows

\* spreadsheets().get(...).execute(): the titles of the tabs
ServerTabTitles(sh) == DOMAIN sh

\* whether spreadsheets().values().get / update accept the range
ServerRangeOk(sh, range) ==
    /\ HasBang(range)
    /\ RangeTab(range) \in DOMAIN sh
    /\ \/ RangeCells(range) = <<"A", "1", ":", "Z">>
       \/ /\ IsCellRef(RangeCells(range))
          /\ ParseDec(Tail(RangeCells(range))) \in 1..Len(sh[RangeTab(range)])

\* spreadsheets().values().get(range=...).execute().get("values", [])
ServerGetValues(sh, range) ==
    LET grid  == sh[RangeTab(range)]
        cells == RangeCells(range)
    IN  IF cells = <<"A", "1", ":", "Z">>
        THEN TrimRows([i \in 1..Len(grid) |-> RowValues(grid[i])])
        ELSE LET r == grid[ParseDec(Tail(cells))]
                 v == IF cells[1] = "A" THEN r.a ELSE r.e
             IN  IF v = <<>> THEN <<>> ELSE << <<v>> >>

\* an update that fills the whole row with the value
ServerUpdate_Row(sh, range, value) ==
    [sh EXCEPT ![RangeTab(range)][ParseDec(Tail(RangeCells(range)))] =
                   [a |-> value, e |-> value]]

\* spreadsheets().values().update(range=..., valueInputOption="RAW",
\* body={"values": [[value]]}).execute(): the one cell is overwritten
ServerUpdate(sh, range, value) ==
    LET tab == RangeTab(range)
        n   == ParseDec(Tail(RangeCells(range)))
    IN  IF RangeCells(range)[1] = "A"
        THEN [sh EXCEPT ![tab][n].a = value]
        ELSE [sh EXCEPT ![tab][n].e = value]

(***************************************************************************)
(* The Todoist service.  A completed task is a record with project_id, the *)
(* instant of completion at = <<ordinal day, second of day, microsecond>>  *)
(* and, unless the key is missing, content (None for a JSON null).         *)
(***************************************************************************)
\* "limit": 100
PageLimit == 100

InstantLeq(a, b) ==
    \/ a[1] < b[1]
    \/ a[1] = b[1] /\ a[2] < b[2]
    \/ a[1] = b[1] /\ a[2] = b[2] /\ a[3] <= b[3]

\* the instant an ISO string "YYYY-MM-DDTHH:MM:SS[.ffffff]Z" denotes
ParseIsoZ(s) ==
    << ToOrdinal([year  |-> ParseDec(Slice(s, 0, 4)),
                  month |-> ParseDec(Slice(s, 5, 7)),
                  day   |-> ParseDec(Slice(s, 8, 10))]),
       ParseDec(Slice(s, 11, 13)) * 3600 + ParseDec(Slice(s, 14, 16)) * 60
           + ParseDec(Slice(s, 17, 19)),
       IF Len(s) > 20 THEN ParseDec(Slice(s, 20, 26)) ELSE 0 >>

RECURSIVE SelectTasks(_, _, _, _)
SelectTasks(db, since, until, pid) ==
    IF Len(db) = 0 THEN <<>>
    ELSE LET t    == Head(db)
             rest == SelectTasks(Tail(db), since, until, pid)
         IN  IF /\ t.project_id = pid
                /\ InstantLeq(ParseIsoZ(since), t.at)
                /\ InstantLeq(t.at, ParseIsoZ(until))
             THEN <<t>> \o rest
             ELSE rest

\* completed/get_all with since, until, limit and project_id: data["items"]
ServerCompleted(db, since, until, pid) ==
    LET all == SelectTasks(db, since, until, pid)
    IN  IF Len(all) > PageLimit THEN SubSeq(all, 1, PageLimit) ELSE all

\* lines 119-122 of get_project_id: the id of the first project of that name
HasProject(projs, name) == \E i \in 1..Len(projs) : projs[i].name = name
FirstProjectId(projs, name) ==
    projs[CHOOSE i \in 1..Len(projs) :
              /\ projs[i].name = name
              /\ \A j \in 1..(i - 1) : projs[j].name # name].id

(***************************************************************************)
(* The environments the runs start in: the process environment and files,  *)
(* the Todoist account, the clock and the spreadsheet.                     *)
(***************************************************************************)
EnvOk == [TODOIST_API_TOKEN |-> Some("token"), GOOGLE_SHEET_ID |-> Some("sheet"),
          SERVICE_ACCOUNT_FILE |-> Some("sa.json"), TODOIST_PROJECT_NAME |-> Some("Work")]

Envs == { EnvOk,
          [EnvOk EXCEPT !.TODOIST_API_TOKEN = None],
          [EnvOk EXCEPT !.GOOGLE_SHEET_ID = Some("")],
          [EnvOk EXCEPT !.TODOIST_PROJECT_NAME = None],
          [EnvOk EXCEPT !.SERVICE_ACCOUNT_FILE = Some("missing.json")],
          [EnvOk EXCEPT !.SERVICE_ACCOUNT_FILE = Some("")],
          [EnvOk EXCEPT !.SERVICE_ACCOUNT_FILE = None] }

\* the files of the working directory
Files == {"sa.json"}

\* the account's projects, as the projects request returns them
ProjectLists ==
    { << [id |-> 1, name |-> "Inbox"], [id |-> 2, name |-> "Work"], [id |-> 3, name |-> "Work"] >>,
      << [id |-> 1, name |-> "Inbox"], [id |-> 4, name |-> "work"] >> }

Day(y, m, d) == ToOrdinal([year |-> y, month |-> m, day |-> d])

\* a run early in January 2024: the window reaches back into December 2023
WorldA ==
    [today |-> [year |-> 2024, month |-> 1, day |-> 3],
     sheet |-> (<<"J", "a", "n", "-", "2", "4">> :> << [a |-> <<"D", "a", "t", "e">>, e |-> <<"D", "o", "n", "e">>],
                                         [a |-> <<"2", "0", "2", "4", "-", "0", "1", "-", "0", "1">>, e |-> <<>>],
                                         [a |-> <<"2", "0", "2", "4", "-", "0", "1", "-", "0", "2">>, e |-> <<>>],
                                         [a |-> <<"2", "0", "2", "4", "-", "0", "1", "-", "0", "3">>, e |-> <<>>] >>) @@
               (<<"D", "e", "c", "-", "2", "3">> :> << [a |-> <<"D", "a", "t", "e">>, e |-> <<"D", "o", "n", "e">>],
                                         [a |-> <<"2", "0", "2", "3", "-", "1", "2", "-", "2", "7">>, e |-> <<"d", "o", "n", "e">>],
                                         [a |-> <<"2", "0", "2", "3", "-", "1", "2", "-", "2", "8">>, e |-> <<>>],
                                         [a |-> <<>>, e |-> <<>>],
                                         [a |-> <<"2", "0", "2", "3", "-", "1", "2", "-", "3", "0">>, e |-> <<>>],
                                         [a |-> <<"2", "0", "2", "3", "-", "1", "2", "-", "3", "0">>, e |-> <<>>],
                                         [a |-> <<"2", "0", "2", "3", "-", "1", "2", "-", "3", "1">>, e |-> <<>>],
                                         [a |-> <<>>, e |-> <<>>] >>),
     tasks |-> << [project_id |-> 2, at |-> <<Day(2024, 1, 2), 0, 0>>, content |-> Some(<<"A">>)],
                  [project_id |-> 9, at |-> <<Day(2024, 1, 2), 3600, 0>>, content |-> Some(<<"X">>)],
                  [project_id |-> 2, at |-> <<Day(2024, 1, 2), 86399, 999999>>, content |-> Some(<<"B">>)],
                  [project_id |-> 2, at |-> <<Day(2023, 12, 31), 43200, 5>>, content |-> Some(<<>>)],
                  [project_id |-> 2, at |-> <<Day(2023, 12, 30), 60, 0>>],
                  [project_id |-> 2, at |-> <<Day(2023, 12, 28), 7, 0>>, content |-> None],
                  [project_id |-> 2, at |-> <<Day(2023, 12, 27), 7, 0>>, content |-> Some(<<"X">>)] >>]

\* a run on 2 March 2024: the window is 1 March and the end of February,
\* and the spreadsheet has no tab for February
WorldB ==
    [today |-> [year |-> 2024, month |-> 3, day |-> 2],
     sheet |-> (<<"M", "a", "r", "-", "2", "4">> :> << [a |-> <<"D", "a", "t", "e">>, e |-> <<"D", "o", "n", "e">>],
                                         [a |-> <<"2", "0", "2", "4", "-", "0", "3", "-", "0", "1">>, e |-> <<>>],
                                         [a |-> <<"2", "0", "2", "4", "-", "0", "3", "-", "0", "2">>, e |-> <<>>] >>),
     tasks |-> << [project_id |-> 2, at |-> <<Day(2024, 3, 1), 30000, 0>>, content |-> Some(<<>>)],
                  [project_id |-> 2, at |-> <<Day(2024, 3, 1), 30001, 0>>, content |-> Some(<<"B">>)],
                  [project_id |-> 2, at |-> <<Day(2024, 2, 29), 30001, 0>>, content |-> Some(<<"A">>)] >>]

Worlds == {WorldA, WorldB}

(***************************************************************************)
(* State.                                                                  *)
(***************************************************************************)
VARIABLES
    \* the surroundings of the runs
    env,              \* os.getenv: variable -> None or Some(value)
    projects,         \* the Todoist account's projects
    taskdb,           \* the Todoist account's completed tasks
    utc_today,        \* datetime.datetime.utcnow().date()
    sheet,            \* the spreadsheet: tab title -> grid rows
    \* one run of the script, per process
    pc,               \* where the run stands
    attempt,          \* retry_api_call's loop variable in the call under way
    project_id,       \* None until get_project_id returned
    days_ago,         \* the loop variable of main
    start_iso, end_iso, iso_date, current_tab_name,
    row_index, cell_to_check, cell_value, string_to_insert,
    ret,              \* what main() returned, -1 before it returns
    exit_status,      \* the exit status of the process, -1 while it runs
    \* observations of a run
    attempted,        \* the day offsets whose iteration began, in order
    outcomes,         \* per iteration begun, the outcomes it ended in
    opsDone,          \* the remote operations the iteration called, in order
    okOps,            \* those of them that returned a response
    lastCalls,        \* how often the latest of them was requested
    okCalls,          \* how many of these requests were answered
    writes,           \* every cell update the service applied, in order
    \* retry_api_call on its own
    r_pc, r_max, r_delay, r_attempt, r_invocations, r_logged, r_slept, r_result

envVars == <<env, projects, taskdb, utc_today>>
iterVars == <<start_iso, end_iso, iso_date, current_tab_name,
              row_index, cell_to_check, cell_value, string_to_insert>>
callVars == <<opsDone, okOps, lastCalls, okCalls>>
retryVars == <<r_pc, r_max, r_delay, r_attempt, r_invocations, r_logged, r_slept, r_result>>
vars == <<env, projects, taskdb, utc_today, sheet, pc, attempt, project_id, days_ago,
          start_iso, end_iso, iso_date, current_tab_name,
          row_index, cell_to_check, cell_value, string_to_insert,
          ret, exit_status, attempted, outcomes, opsDone, okOps, lastCalls, okCalls, writes,
          r_pc, r_max, r_delay, r_attempt, r_invocations, r_logged, r_slept, r_result>>

(***************************************************************************)
(* retry_api_call: what the except clause does with a failed attempt.      *)
(***************************************************************************)
\* the comparison of line 81 one too high: the last failure is not raised
RetryRaises_OffByOne(att, max_retries) == att = max_retries

\* a wrapper that never gives up
RetryRaises_Never(att, max_retries) == FALSE

\* if attempt == max_retries - 1: raise e
RetryRaises(att, max_retries) == att = max_retries - 1

\* raising the first error caught instead of the one at hand
RaisedError_First(errs) == errs[1]

\* raise e: e is the exception of the attempt that just failed, the last of
\* the errors caught so far
RaisedError(errs) == errs[Len(errs)]

\* a delay that grows by one base delay per attempt
SleepFor_Linear(delay, att) == delay * (att + 1)

\* time.sleep(delay * (2 ** attempt))
SleepFor(delay, att) == delay * (2 ^ att)

(***************************************************************************)
(* Initial states.                                                         *)
(***************************************************************************)
InitProcs ==
    /\ pc = [p \in Procs |-> "idle"]
    /\ attempt = [p \in Procs |-> 0]
    /\ project_id = [p \in Procs |-> None]
    /\ days_ago = [p \in Procs |-> FirstDaysAgo - 1]
    /\ start_iso = [p \in Procs |-> <<>>]
    /\ end_iso = [p \in Procs |-> <<>>]
    /\ iso_date = [p \in Procs |-> <<>>]
    /\ current_tab_name = [p \in Procs |-> <<>>]
    /\ row_index = [p \in Procs |-> -1]
    /\ cell_to_check = [p \in Procs |-> <<>>]
    /\ cell_value = [p \in Procs |-> None]
    /\ string_to_insert = [p \in Procs |-> <<>>]
    /\ ret = [p \in Procs |-> -1]
    /\ exit_status = [p \in Procs |-> -1]
    /\ attempted = [p \in Procs |-> <<>>]
    /\ outcomes = [p \in Procs |-> <<>>]
    /\ opsDone = [p \in Procs |-> <<>>]
    /\ okOps = [p \in Procs |-> {}]
    /\ lastCalls = [p \in Procs |-> 0]
    /\ okCalls = [p \in Procs |-> 0]
    /\ writes = <<>>

InitRetryIdle ==
    /\ r_pc = "idle"
    /\ r_max = DefaultMaxRetries
    /\ r_delay = DefaultDelay
    /\ r_attempt = 0
    /\ r_invocations = <<>>
    /\ r_logged = 0
    /\ r_slept = <<>>
    /\ r_result = None

Init ==
    /\ env \in Envs
    /\ projects \in ProjectLists
    /\ \E w \in Worlds : utc_today = w.today /\ sheet = w.sheet /\ taskdb = w.tasks
    /\ InitProcs
    /\ InitRetryIdle

(***************************************************************************)
(* Steps shared by the actions of a run.                                   *)
(***************************************************************************)
\* one more request of operation op, answered or not: the first attempt of a
\* call of retry_api_call opens the call, a later one repeats it
Requested(p, op, ok) ==
    /\ opsDone' = [opsDone EXCEPT ![p] = IF attempt[p] = 0 THEN Append(@, op) ELSE @]
    /\ lastCalls' = [lastCalls EXCEPT ![p] = IF attempt[p] = 0 THEN 1 ELSE @ + 1]
    /\ okCalls' = [okCalls EXCEPT ![p] =
                       (IF attempt[p] = 0 THEN 0 ELSE @) + (IF ok THEN 1 ELSE 0)]
    /\ okOps' = [okOps EXCEPT ![p] = IF ok THEN @ \cup {op} ELSE @]

\* except Exception as e of main, line 337: print and return 1
Fatal(p) ==
    /\ ret' = [ret EXCEPT ![p] = 1]
    /\ pc' = [pc EXCEPT ![p] = "return"]
    /\ attempt' = [attempt EXCEPT ![p] = 0]

\* the iteration ends in outcome o and control is back at the for statement
EndIteration(p, o) ==
    /\ outcomes' = [outcomes EXCEPT ![p][Len(outcomes[p])] = @ \cup {o}]
    /\ pc' = [pc EXCEPT ![p] = "loop"]
    /\ attempt' = [attempt EXCEPT ![p] = 0]
    /\ UNCHANGED ret

\* the request was answered and the iteration goes on with the next call
Proceed(p, to) ==
    /\ pc' = [pc EXCEPT ![p] = to]
    /\ attempt' = [attempt EXCEPT ![p] = 0]
    /\ UNCHANGED <<outcomes, ret>>

\* retry_api_call after a failed attempt: raise on the last one, else log,
\* sleep and go round the loop again
RetryAgain(p) ==
    /\ attempt' = [attempt EXCEPT ![p] = @ + 1]
    /\ UNCHANGED <<pc, outcomes, ret>>

\* without the try of line 278 what retry_api_call raises reaches the except
\* clause of line 337
FailedAttempt_Escapes(p) ==
    IF RetryRaises(attempt[p], DefaultMaxRetries)
    THEN Fatal(p) /\ UNCHANGED outcomes
    ELSE RetryAgain(p)

\* a failed attempt inside an iteration; what retry_api_call raises is caught
\* by the except clause of line 331, which ends the iteration
FailedAttempt(p) ==
    IF RetryRaises(attempt[p], DefaultMaxRetries)
    THEN EndIteration(p, "Failed")
    ELSE RetryAgain(p)

\* line 122: the project list was fetched and holds no project of that name;
\* the ValueError is raised outside retry_api_call and ends the run
ProjectNotFound(p) == Fatal(p)

\* the missing tab raised inside the request function, where retry_api_call
\* treats it as a failed attempt
TabMissing_Retried(p) == FailedAttempt(p)

\* lines 289-291: the tab list was fetched and does not hold the tab
TabMissing(p) == EndIteration(p, "SkippedTabMissing")

\* break in the place of continue at line 303: the loop is left and main
\* returns 0
DateNotFound_Breaks(p) ==
    /\ outcomes' = [outcomes EXCEPT ![p][Len(outcomes[p])] = @ \cup {"SkippedDateNotFound"}]
    /\ pc' = [pc EXCEPT ![p] = "return"]
    /\ ret' = [ret EXCEPT ![p] = 0]
    /\ attempt' = [attempt EXCEPT ![p] = 0]

\* lines 301-303: the rows were fetched and none is the date's
DateNotFound(p) == EndIteration(p, "SkippedDateNotFound")

(***************************************************************************)
(* A run of the script.                                                    *)
(***************************************************************************)
\* the script is started; in Spec a run starts when the one before it ended
Launch(p) ==
    /\ pc[p] = "idle"
    /\ IF p = 1 THEN TRUE ELSE pc[p - 1] = "exited"
    /\ pc' = [pc EXCEPT ![p] = "import"]
    /\ UNCHANGED <<envVars, sheet, attempt, project_id, days_ago, iterVars, ret,
                   exit_status, attempted, outcomes, callVars, writes, retryVars>>

\* lines 15-24, run when the module is loaded: os.path.join(os.getcwd(), None)
\* raises TypeError outside main(), and the interpreter exits with status 1
ImportModule(p) ==
    /\ pc[p] = "import"
    /\ IF env.SERVICE_ACCOUNT_FILE = None
       THEN /\ pc' = [pc EXCEPT ![p] = "exited"]
            /\ exit_status' = [exit_status EXCEPT ![p] = 1]
       ELSE /\ pc' = [pc EXCEPT ![p] = "validate"]
            /\ UNCHANGED exit_status
    /\ UNCHANGED <<envVars, sheet, attempt, project_id, days_ago, iterVars, ret,
                   attempted, outcomes, callVars, writes, retryVars>>

\* validate_configuration without the test of the variables
MissingVars_Unchecked(e) == {}

\* a value of required_vars is missing when it is falsy; SERVICE_ACCOUNT_FILE
\* is the joined path, which is never empty
EnvFalsy(v) == v = None \/ v[1] = ""
MissingVars(e) ==
    {n \in {"TODOIST_API_TOKEN", "GOOGLE_SHEET_ID", "TODOIST_PROJECT_NAME"} : EnvFalsy(e[n])}

\* os.path.exists(SERVICE_ACCOUNT_FILE): joining "" gives the directory itself
PathExists(e) == e.SERVICE_ACCOUNT_FILE[1] = "" \/ e.SERVICE_ACCOUNT_FILE[1] \in Files

\* validate_configuration()
ValidateConfiguration(p) ==
    /\ pc[p] = "validate"
    /\ IF MissingVars(env) # {} \/ ~PathExists(env)
       THEN Fatal(p)
       ELSE /\ pc' = [pc EXCEPT ![p] = "service"]
            /\ UNCHANGED <<ret, attempt>>
    /\ UNCHANGED <<envVars, sheet, project_id, days_ago, iterVars,
                   exit_status, attempted, outcomes, callVars, writes, retryVars>>

\* get_google_sheets_service(): reading the credentials or building the
\* service may raise; a path that is no credentials file always does
GetGoogleSheetsService(p) ==
    /\ pc[p] = "service"
    /\ \E ok \in BOOLEAN :
        /\ ok => env.SERVICE_ACCOUNT_FILE[1] \in Files
        /\ IF ok
           THEN /\ pc' = [pc EXCEPT ![p] = "project"]
                /\ UNCHANGED <<ret, attempt>>
           ELSE Fatal(p)
    /\ UNCHANGED <<envVars, sheet, project_id, days_ago, iterVars,
                   exit_status, attempted, outcomes, callVars, writes, retryVars>>

\* get_project_id(TODOIST_PROJECT_NAME): one attempt of the projects request
\* and, when it succeeds, the search of lines 119-122
GetProjectId(p) ==
    /\ pc[p] = "project"
    /\ \E ok \in BOOLEAN :
        /\ Requested(p, "projects", ok)
        /\ IF ok
           THEN IF HasProject(projects, env.TODOIST_PROJECT_NAME[1])
                THEN /\ project_id' = [project_id EXCEPT ![p] =
                            Some(FirstProjectId(projects, env.TODOIST_PROJECT_NAME[1]))]
                     /\ pc' = [pc EXCEPT ![p] = "loop"]
                     /\ attempt' = [attempt EXCEPT ![p] = 0]
                     /\ UNCHANGED ret
                ELSE /\ ProjectNotFound(p)
                     /\ UNCHANGED project_id
           ELSE /\ UNCHANGED project_id
                /\ IF RetryRaises(attempt[p], DefaultMaxRetries)
                   THEN Fatal(p)
                   ELSE /\ attempt' = [attempt EXCEPT ![p] = @ + 1]
                        /\ UNCHANGED <<pc, ret>>
    /\ UNCHANGED <<envVars, sheet, days_ago, iterVars,
                   exit_status, attempted, outcomes, writes, retryVars>>

\* the KeyError of get_tab_name reaching main's handler with no try around
\* the iteration: main returns 1
KeyErrorCaught_Fatal(p) ==
    /\ outcomes' = [outcomes EXCEPT ![p] = Append(@, {"Failed"})]
    /\ pc' = [pc EXCEPT ![p] = "return"]
    /\ ret' = [ret EXCEPT ![p] = 1]
    /\ UNCHANGED current_tab_name

\* the KeyError get_tab_name raises at line 285 is caught by the except
\* clause of line 331: the iteration has failed and the loop goes on
KeyErrorCaught(p) ==
    /\ outcomes' = [outcomes EXCEPT ![p] = Append(@, {"Failed"})]
    /\ UNCHANGED <<pc, current_tab_name, ret>>

\* lines 280-285: the iteration for offset d begins with the range that
\* get_day_iso_range returned
BeginIteration(p, d, range) ==
    LET parts == split_date_string(range.start)
    IN  /\ days_ago' = [days_ago EXCEPT ![p] = d]
        /\ attempted' = [attempted EXCEPT ![p] = Append(@, d)]
        /\ start_iso' = [start_iso EXCEPT ![p] = range.start]
        /\ end_iso' = [end_iso EXCEPT ![p] = range.end]
        /\ iso_date' = [iso_date EXCEPT ![p] = parts.short_iso_date]
        /\ row_index' = [row_index EXCEPT ![p] = -1]
        /\ cell_to_check' = [cell_to_check EXCEPT ![p] = <<>>]
        /\ cell_value' = [cell_value EXCEPT ![p] = None]
        /\ string_to_insert' = [string_to_insert EXCEPT ![p] = <<>>]
        /\ opsDone' = [opsDone EXCEPT ![p] = <<>>]
        /\ okOps' = [okOps EXCEPT ![p] = {}]
        /\ lastCalls' = [lastCalls EXCEPT ![p] = 0]
        /\ okCalls' = [okCalls EXCEPT ![p] = 0]
        /\ attempt' = [attempt EXCEPT ![p] = 0]
        /\ IF TabNameRaises(parts.short_month)
           THEN KeyErrorCaught(p)
           ELSE /\ outcomes' = [outcomes EXCEPT ![p] = Append(@, {})]
                /\ current_tab_name' = [current_tab_name EXCEPT ![p] =
                       get_tab_name(parts.short_year, parts.short_month)]
                /\ pc' = [pc EXCEPT ![p] = "list_tabs"]
                /\ UNCHANGED ret

\* for days_ago in range(1, 8), and lines 280-285 of the iteration it starts
ForLoop(p) ==
    /\ pc[p] = "loop"
    /\ IF days_ago[p] + 1 < RangeStop
       THEN \E range \in {get_day_iso_range(utc_today, days_ago[p] + 1)} :
                BeginIteration(p, days_ago[p] + 1, range)
       ELSE /\ pc' = [pc EXCEPT ![p] = "return"]
            /\ ret' = [ret EXCEPT ![p] = 0]
            /\ UNCHANGED <<days_ago, attempted, iterVars, callVars, attempt, outcomes>>
    /\ UNCHANGED <<envVars, sheet, project_id, exit_status, writes, retryVars>>

\* list_sheet_tabs(sheets_service): one attempt of the request and, when it
\* succeeds, the test of line 289
ListSheetTabs(p) ==
    /\ pc[p] = "list_tabs"
    /\ \E ok \in BOOLEAN :
        /\ Requested(p, "listTabs", ok)
        /\ IF ok
           THEN IF current_tab_name[p] \in ServerTabTitles(sheet)
                THEN Proceed(p, "get_rows")
                ELSE TabMissing(p)
           ELSE FailedAttempt(p)
    /\ UNCHANGED <<envVars, sheet, project_id, days_ago, iterVars,
                   exit_status, attempted, writes, retryVars>>

\* get_rows_from_google_sheet(sheets_service, current_tab_name): one attempt
\* of the request and, when it succeeds, the scan of lines 295-303
GetRows(p) ==
    /\ pc[p] = "get_rows"
    /\ \E ok \in BOOLEAN :
        /\ ok => ServerRangeOk(sheet, RowsRange(current_tab_name[p]))
        /\ Requested(p, "readRows", ok)
        /\ IF ok
           THEN LET rows == ServerGetValues(sheet, RowsRange(current_tab_name[p]))
                    idx  == FindRowIndex(rows, iso_date[p])
                IN  /\ row_index' = [row_index EXCEPT ![p] = idx]
                    /\ IF idx = -1
                       THEN /\ DateNotFound(p)
                            /\ UNCHANGED cell_to_check
                       ELSE /\ cell_to_check' = [cell_to_check EXCEPT ![p] =
                                   CellName(current_tab_name[p], idx)]
                            /\ Proceed(p, "get_cell")
           ELSE /\ FailedAttempt(p)
                /\ UNCHANGED <<row_index, cell_to_check>>
    /\ UNCHANGED <<envVars, sheet, project_id, days_ago, start_iso, end_iso, iso_date,
                   current_tab_name, cell_value, string_to_insert,
                   exit_status, attempted, writes, retryVars>>

\* without the continue of line 312 a filled cell does not end the iteration
AlreadyFilled_Ignored(p) == Proceed(p, "get_tasks")

\* lines 310-312: the cell holds data already
AlreadyFilled(p) == EndIteration(p, "SkippedAlreadyFilled")

\* get_cell_value(sheets_service, cell_to_check): one attempt of the request
\* and, when it succeeds, lines 186-189 and the test of line 310
GetCellValue(p) ==
    /\ pc[p] = "get_cell"
    /\ \E ok \in BOOLEAN :
        /\ ok => ServerRangeOk(sheet, cell_to_check[p])
        /\ Requested(p, "readCell", ok)
        /\ IF ok
           THEN LET values == ServerGetValues(sheet, cell_to_check[p])
                    value  == IF values = <<>> \/ values[1] = <<>>
                              THEN None ELSE Some(values[1][1])
                IN  /\ cell_value' = [cell_value EXCEPT ![p] = value]
                    /\ IF Truthy(value)
                       THEN AlreadyFilled(p)
                       ELSE Proceed(p, "get_tasks")
           ELSE /\ FailedAttempt(p)
                /\ UNCHANGED cell_value
    /\ UNCHANGED <<envVars, sheet, project_id, days_ago, start_iso, end_iso, iso_date,
                   current_tab_name, row_index, cell_to_check, string_to_insert,
                   exit_status, attempted, writes, retryVars>>

\* get_completed_tasks(start_iso, end_iso, project_id): one attempt of the
\* request and, when it succeeds, the formatting of lines 318-326, whose
\* TypeError the except clause of line 331 catches
GetCompletedTasks(p) ==
    /\ pc[p] = "get_tasks"
    /\ \E ok \in BOOLEAN :
        /\ Requested(p, "fetchCompletedTasks", ok)
        /\ IF ok
           THEN LET tasks == ServerCompleted(taskdb, start_iso[p], end_iso[p],
                                             project_id[p][1])
                IN  IF JoinRaises(tasks)
                    THEN /\ EndIteration(p, "Failed")
                         /\ UNCHANGED string_to_insert
                    ELSE /\ string_to_insert' = [string_to_insert EXCEPT ![p] =
                                FormatTasks(tasks)]
                         /\ Proceed(p, "update_cell")
           ELSE /\ FailedAttempt(p)
                /\ UNCHANGED string_to_insert
    /\ UNCHANGED <<envVars, sheet, project_id, days_ago, start_iso, end_iso, iso_date,
                   current_tab_name, row_index, cell_to_check, cell_value,
                   exit_status, attempted, writes, retryVars>>

\* update_google_sheet_cell(sheets_service, string_to_insert, cell_to_check):
\* one attempt of the request; a request that fails changes no cell
UpdateCell(p) ==
    /\ pc[p] = "update_cell"
    /\ \E ok \in BOOLEAN :
        /\ ok => ServerRangeOk(sheet, cell_to_check[p])
        /\ Requested(p, "writeCell", ok)
        /\ IF ok
           THEN /\ sheet' = ServerUpdate(sheet, cell_to_check[p], string_to_insert[p])
                /\ writes' = Append(writes,
                       [proc |-> p, days_ago |-> days_ago[p], range |-> cell_to_check[p],
                        old |-> ServerGetValues(sheet, cell_to_check[p]),
                        value |-> string_to_insert[p]])
                /\ EndIteration(p, "Written")
           ELSE /\ FailedAttempt(p)
                /\ UNCHANGED <<sheet, writes>>
    /\ UNCHANGED <<envVars, project_id, days_ago, iterVars,
                   exit_status, attempted, retryVars>>

\* lines 344-345: the script calls main() and drops what it returns, so the
\* interpreter ends with status 0; the memory of the run is gone
ScriptExit(p) ==
    /\ pc[p] = "return"
    /\ pc' = [pc EXCEPT ![p] = "exited"]
    /\ exit_status' = [exit_status EXCEPT ![p] = 0]
    /\ attempt' = [attempt EXCEPT ![p] = 0]
    /\ project_id' = [project_id EXCEPT ![p] = None]
    /\ days_ago' = [days_ago EXCEPT ![p] = FirstDaysAgo - 1]
    /\ start_iso' = [start_iso EXCEPT ![p] = <<>>]
    /\ end_iso' = [end_iso EXCEPT ![p] = <<>>]
    /\ iso_date' = [iso_date EXCEPT ![p] = <<>>]
    /\ current_tab_name' = [current_tab_name EXCEPT ![p] = <<>>]
    /\ row_index' = [row_index EXCEPT ![p] = -1]
    /\ cell_to_check' = [cell_to_check EXCEPT ![p] = <<>>]
    /\ cell_value' = [cell_value EXCEPT ![p] = None]
    /\ string_to_insert' = [string_to_insert EXCEPT ![p] = <<>>]
    /\ outcomes' = [outcomes EXCEPT ![p] = <<>>]
    /\ opsDone' = [opsDone EXCEPT ![p] = <<>>]
    /\ okOps' = [okOps EXCEPT ![p] = {}]
    /\ lastCalls' = [lastCalls EXCEPT ![p] = 0]
    /\ okCalls' = [okCalls EXCEPT ![p] = 0]
    /\ UNCHANGED <<envVars, sheet, ret, attempted, writes, retryVars>>

Next ==
    \E p \in Procs :
        \/ Launch(p)
        \/ ImportModule(p)
        \/ ValidateConfiguration(p)
        \/ GetGoogleSheetsService(p)
        \/ GetProjectId(p)
        \/ ForLoop(p)
        \/ ListSheetTabs(p)
        \/ GetRows(p)
        \/ GetCellValue(p)
        \/ GetCompletedTasks(p)
        \/ UpdateCell(p)
        \/ ScriptExit(p)

Spec == Init /\ [][Next]_vars

(***************************************************************************)
(* retry_api_call(func, max_retries, delay) on its own, for any func: each *)
(* invocation of func returns a value or raises a new exception, which is  *)
(* known by the invocation that raised it (id) and carries a message.      *)
(***************************************************************************)
FuncValues == {"v1", "v2"}
FuncMessages == {"timeout", "503"}

InitRetry ==
    /\ env = EnvOk
    /\ projects = <<>>
    /\ utc_today = WorldB.today /\ sheet = WorldB.sheet /\ taskdb = WorldB.tasks
    /\ InitProcs
    /\ r_pc = "loop"
    /\ r_max \in 0..MaxRetriesArg
    /\ r_delay \in 1..MaxDelayArg
    /\ r_attempt = 0
    /\ r_invocations = <<>>
    /\ r_logged = 0
    /\ r_slept = <<>>
    /\ r_result = None

\* the errors the invocations so far have raised, in order
RECURSIVE ErrorsOf(_)
ErrorsOf(invs) ==
    IF Len(invs) = 0 THEN <<>>
    ELSE ErrorsOf(SubSeq(invs, 1, Len(invs) - 1))
         \o (IF invs[Len(invs)].ok THEN <<>> ELSE <<invs[Len(invs)].err>>)

\* lines 78-79: func() is invoked and returns, and so does retry_api_call
RetryAttemptReturns ==
    /\ r_pc = "loop"
    /\ r_attempt < r_max
    /\ \E v \in FuncValues :
        /\ r_invocations' = Append(r_invocations, [ok |-> TRUE, value |-> v])
        /\ r_result' = Some([kind |-> "return", value |-> Some(v)])
    /\ r_pc' = "done"
    /\ UNCHANGED <<envVars, sheet, pc, attempt, project_id, days_ago, iterVars, ret,
                   exit_status, attempted, outcomes, callVars, writes,
                   r_max, r_delay, r_attempt, r_logged, r_slept>>

\* lines 78-84: func() is invoked and raises
RetryAttemptRaises ==
    /\ r_pc = "loop"
    /\ r_attempt < r_max
    /\ \E m \in FuncMessages :
        LET e    == [id |-> Len(r_invocations) + 1, msg |-> m]
            invs == Append(r_invocations, [ok |-> FALSE, err |-> e])
        IN  /\ r_invocations' = invs
            /\ IF RetryRaises(r_attempt, r_max)
               THEN /\ r_result' = Some([kind |-> "raise", err |-> RaisedError(ErrorsOf(invs))])
                    /\ r_pc' = "done"
                    /\ UNCHANGED <<r_attempt, r_logged, r_slept>>
               ELSE /\ r_logged' = r_logged + 1
                    /\ r_slept' = Append(r_slept, SleepFor(r_delay, r_attempt))
                    /\ r_attempt' = r_attempt + 1
                    /\ UNCHANGED <<r_result, r_pc>>
    /\ UNCHANGED <<envVars, sheet, pc, attempt, project_id, days_ago, iterVars, ret,
                   exit_status, attempted, outcomes, callVars, writes, r_max, r_delay>>

\* range(max_retries) is used up: the function ends without a return
\* statement and gives None
RetryLoopEnds ==
    /\ r_pc = "loop"
    /\ r_attempt >= r_max
    /\ r_result' = Some([kind |-> "return", value |-> None])
    /\ r_pc' = "done"
    /\ UNCHANGED <<envVars, sheet, pc, attempt, project_id, days_ago, iterVars, ret,
                   exit_status, attempted, outcomes, callVars, writes,
                   r_max, r_delay, r_attempt, r_invocations, r_logged, r_slept>>

NextRetry == RetryAttemptReturns \/ RetryAttemptRaises \/ RetryLoopEnds

SpecRetry == InitRetry /\ [][NextRetry]_vars

(***************************************************************************)
(* Properties of retry_api_call, checked under SpecRetry.                  *)
(***************************************************************************)
LastInvocation == r_invocations[Len(r_invocations)]

\* C7: with max_retries >= 1, func is invoked at least once and at most
\* max_retries times, no invocation follows a successful one, the value of
\* the successful invocation is what retry_api_call returns, it returns only
\* after a success, and the retries logged are the failed invocations that
\* came before the success.
C7_RetrySuccessPath ==
    r_max >= 1 =>
        /\ Len(r_invocations) <= r_max
        /\ r_pc = "done" => Len(r_invocations) >= 1
        /\ \A i \in 1..(Len(r_invocations) - 1) : ~r_invocations[i].ok
        /\ (Len(r_invocations) > 0 /\ LastInvocation.ok) =>
              /\ r_pc = "done"
              /\ r_result = Some([kind |-> "return", value |-> Some(LastInvocation.value)])
              /\ r_logged = Len(r_invocations) - 1
        /\ (r_pc = "done" /\ r_result[1].kind = "return") => LastInvocation.ok

\* C7 witness: max_retries = 3, attempts 1 and 2 fail, attempt 3 succeeds, its
\* value is returned and 2 retries were logged.
C7_Witness ==
    /\ r_max = 3
    /\ r_pc = "done"
    /\ Len(r_invocations) = 3
    /\ ~r_invocations[1].ok /\ ~r_invocations[2].ok /\ r_invocations[3].ok
    /\ r_result = Some([kind |-> "return", value |-> Some(r_invocations[3].value)])
    /\ r_logged = 2

\* C8: with max_retries >= 1, when every invocation failed and the call is
\* over, func was invoked exactly max_retries times and retry_api_call raised
\* the very exception of the last invocation; and it raises in no other case.
C8_RetryExhaustion ==
    (r_max >= 1 /\ r_pc = "done") =>
        /\ (\A i \in 1..Len(r_invocations) : ~r_invocations[i].ok) =>
              /\ Len(r_invocations) = r_max
              /\ r_result = Some([kind |-> "raise", err |-> LastInvocation.err])
        /\ r_result[1].kind = "raise" =>
              /\ Len(r_invocations) = r_max
              /\ \A i \in 1..Len(r_invocations) : ~r_invocations[i].ok

\* C8 witness: three failed attempts whose messages differ, and the third
\* attempt's exception is the one raised.
C8_Witness ==
    /\ r_max = 3
    /\ r_pc = "done"
    /\ Len(r_invocations) = 3
    /\ \A i \in 1..3 : ~r_invocations[i].ok
    /\ r_invocations[1].err.msg # r_invocations[3].err.msg
    /\ r_result = Some([kind |-> "raise", err |-> r_invocations[3].err])

\* 2 to the power k, by doubling
RECURSIVE Doubled(_)
Doubled(k) == IF k = 0 THEN 1 ELSE 2 * Doubled(k - 1)

RECURSIVE SumOf(_)
SumOf(q) == IF Len(q) = 0 THEN 0 ELSE Head(q) + SumOf(Tail(q))

\* the invocations so far that raised
FailedSoFar == {i \in 1..Len(r_invocations) : ~r_invocations[i].ok}

\* C15: the k-th sleep (k counted from 0) lasts delay * 2^k and follows the
\* failed attempt of index k, with one retry logged per sleep; an attempt is
\* made only after the sleeps of all failed attempts before it; the failed
\* attempt of index max_retries - 1 is followed by neither a sleep nor a log,
\* so an exhausted call has slept and logged max_retries - 1 times; with
\* max_retries = 3 and delay = 1 it has slept 1 and then 2, 3 in all.
C15_BackoffSchedule ==
    /\ \A k \in 0..(Len(r_slept) - 1) :
          /\ r_slept[k + 1] = r_delay * Doubled(k)
          /\ ~r_invocations[k + 1].ok
          /\ k < r_max - 1
    /\ r_logged = Len(r_slept)
    /\ Len(r_slept) = Cardinality(FailedSoFar \ {r_max})
    /\ r_pc = "loop" => Len(r_invocations) = Len(r_slept)
    /\ (r_pc = "done" /\ r_max >= 1 /\ r_result[1].kind = "raise") =>
          /\ Cardinality(FailedSoFar) = r_max
          /\ Len(r_slept) = r_max - 1
          /\ r_logged = r_max - 1
          /\ (r_max = DefaultMaxRetries /\ r_delay = DefaultDelay) =>
                /\ r_slept = <<1, 2>>
                /\ SumOf(r_slept) = 3

\* C15 witness: the call with the defaults failed three times and is over,
\* having slept 1 and 2.
C15_Witness ==
    /\ r_max = DefaultMaxRetries
    /\ r_delay = DefaultDelay
    /\ r_pc = "done"
    /\ r_result[1].kind = "raise"
    /\ Len(r_invocations) = 3
    /\ r_slept = <<1, 2>>
    /\ r_logged = 2

(***************************************************************************)
(* Properties of the runs, checked under Spec.                             *)
(***************************************************************************)
\* the offsets of range(1, 8), in order
Window == [i \in 1..(RangeStop - FirstDaysAgo) |-> FirstDaysAgo + i - 1]

IterationPcs == {"list_tabs", "get_rows", "get_cell", "get_tasks", "update_cell"}

\* the outcomes of the iteration of run p that began last
Current(p) == outcomes[p][Len(outcomes[p])]

\* iteration o of run p has ended
Finished(p, o) == o < Len(outcomes[p]) \/ pc[p] \in {"loop", "return"}

\* run p wrote a cell in its iteration for offset o
WroteFor(p, o) == \E i \in 1..Len(writes) : writes[i].proc = p /\ writes[i].days_ago = o

\* what reading the cell of a range gives when the cell holds value v
ValuesOf(v) == IF v = <<>> THEN <<>> ELSE << <<v>> >>

\* C1: a run begins the iterations for the offsets 1, 2, ..., 7 in this
\* order, each once; once main has returned after the loop began, whatever
\* the outcomes of the days were, all seven were begun, and main returns 0
\* only then.
C1_AllOffsetsInOrder ==
    \A p \in Procs :
        /\ Len(attempted[p]) <= Len(Window)
        /\ \A i \in 1..Len(attempted[p]) : attempted[p][i] = Window[i]
        /\ pc[p] \in IterationPcs => days_ago[p] = attempted[p][Len(attempted[p])]
        /\ (ret[p] # -1 /\ attempted[p] # <<>>) => attempted[p] = Window
        /\ ret[p] = 0 => attempted[p] = Window

\* C1 witness: main returned 0 after all seven iterations, of which the fifth
\* was skipped because its date has no row, the sixth failed and the seventh
\* was skipped because its cell was filled.
C1_Witness ==
    /\ pc[1] = "return"
    /\ ret[1] = 0
    /\ attempted[1] = Window
    /\ outcomes[1][5] = {"SkippedDateNotFound"}
    /\ outcomes[1][6] = {"Failed"}
    /\ outcomes[1][7] = {"SkippedAlreadyFilled"}

\* C2: in the second of two runs on the same UTC date, every day the first
\* run wrote ends as SkippedAlreadyFilled (unless a request of the second
\* run failed), and the cell holds what the first run wrote.
C2_SecondRunSkips ==
    \A i \in 1..Len(writes) :
        LET o == writes[i].days_ago
        IN  (/\ writes[i].proc = 1
             /\ Len(outcomes[2]) >= o
             /\ Finished(2, o)
             /\ "Failed" \notin outcomes[2][o])
            => /\ outcomes[2][o] = {"SkippedAlreadyFilled"}
               /\ ServerGetValues(sheet, writes[i].range) = ValuesOf(writes[i].value)

\* every cell that holds a value keeps it in the next state
CellsKept ==
    \A tab \in DOMAIN sheet :
        /\ tab \in DOMAIN sheet'
        /\ Len(sheet'[tab]) = Len(sheet[tab])
        /\ \A i \in 1..Len(sheet[tab]) :
              /\ sheet[tab][i].a # <<>> => sheet'[tab][i].a = sheet[tab][i].a
              /\ sheet[tab][i].e # <<>> => sheet'[tab][i].e = sheet[tab][i].e

\* the writes and reads of the iteration under way are in step
WritesFollowEmptyReads ==
    /\ \A i \in 1..Len(writes) : writes[i].old = <<>>
    /\ \A p \in Procs :
          /\ "writeCell" \in okOps[p] =>
                /\ "readCell" \in okOps[p]
                /\ ~Truthy(cell_value[p])
                /\ \E i \in 1..Len(writes) :
                      /\ writes[i].proc = p /\ writes[i].days_ago = days_ago[p]
                      /\ writes[i].range = cell_to_check[p]
          /\ "writeCell" \in Range(opsDone[p]) =>
                "readCell" \in okOps[p] /\ ~Truthy(cell_value[p])
          /\ Truthy(cell_value[p]) =>
                /\ "writeCell" \notin Range(opsDone[p])
                /\ ~WroteFor(p, days_ago[p])

\* C3: every update the service applied hit a cell that was empty; a run
\* requests an update only of the cell it read in the same iteration, and only
\* when it read it as empty; and no step of any run changes a cell that holds
\* a value.
C3_NeverOverwrites == []WritesFollowEmptyReads /\ [][CellsKept]_vars

\* C3 witness: the second run has read a cell the first run filled and
\* skipped the day.
C3_Witness ==
    /\ pc[2] = "loop"
    /\ Len(outcomes[2]) >= 1
    /\ Current(2) = {"SkippedAlreadyFilled"}
    /\ WroteFor(1, days_ago[2])
    /\ Truthy(cell_value[2])

\* a precondition that the surroundings decide fails: a required variable is
\* unset or empty, the credentials file is missing, or no project has the
\* configured name
PreconditionFails ==
    \/ \E n \in {"TODOIST_API_TOKEN", "GOOGLE_SHEET_ID", "TODOIST_PROJECT_NAME"} :
           env[n] = None \/ env[n] = Some("")
    \/ env.SERVICE_ACCOUNT_FILE[1] \notin {"sa.json"}
    \/ \A i \in 1..Len(projects) : Some(projects[i].name) # env.TODOIST_PROJECT_NAME

\* C4: when a startup precondition fails, main returns 1 and the run began no
\* iteration, requested no operation of a day and wrote no cell: a run whose
\* precondition fails never enters the loop, main returns 1 exactly when it
\* returns before the loop, and a run that returned 1 has requested nothing
\* but the project list.
C4_FatalBeforeAnyDay ==
    \A p \in Procs :
        /\ (env.SERVICE_ACCOUNT_FILE # None /\ PreconditionFails) =>
              /\ pc[p] \in {"idle", "import", "validate", "service", "project",
                            "return", "exited"}
              /\ pc[p] \in {"return", "exited"} => ret[p] = 1
        /\ pc[p] \in {"import", "validate", "service", "project"} => attempted[p] = <<>>
        /\ (pc[p] = "return" /\ attempted[p] = <<>>) => ret[p] = 1
        /\ ret[p] = 1 =>
              /\ pc[p] \in {"return", "exited"}
              /\ attempted[p] = <<>>
              /\ outcomes[p] = <<>>
              /\ Range(opsDone[p]) \subseteq {"projects"}
              /\ \A i \in 1..Len(writes) : writes[i].proc # p

\* C4 witness: the project list could not be fetched in three attempts and
\* main returned 1.
C4_Witness ==
    /\ pc[1] = "return"
    /\ ret[1] = 1
    /\ opsDone[1] = <<"projects">>
    /\ lastCalls[1] = 3
    /\ okCalls[1] = 0

\* C5: a run of the script in which main met a fatal error ends with an exit
\* status other than 0.
C5_FatalExitsNonZero ==
    \A p \in Procs : (pc[p] = "exited" /\ ret[p] = 1) => exit_status[p] # 0

\* C6: once the loop has begun, main does not return 1 and returns 0 after
\* seven iterations; an iteration in which a request failed three times ends
\* there as Failed; and a run wrote no cell in an iteration that failed.
C6_DayErrorsContained ==
    \A p \in Procs :
        /\ attempted[p] # <<>> => ret[p] \in {-1, 0}
        /\ (pc[p] = "return" /\ attempted[p] # <<>>) =>
              /\ ret[p] = 0
              /\ Len(outcomes[p]) = Len(Window)
        /\ (/\ pc[p] \in IterationPcs \cup {"loop"}
            /\ attempted[p] # <<>>
            /\ lastCalls[p] = DefaultMaxRetries
            /\ okCalls[p] = 0) =>
              /\ pc[p] = "loop"
              /\ Current(p) = {"Failed"}
        /\ \A o \in 1..Len(outcomes[p]) :
              "Failed" \in outcomes[p][o] => ~WroteFor(p, o)

\* C6 witness: all seven days failed and main returned 0.
C6_Witness ==
    /\ pc[1] = "return"
    /\ ret[1] = 0
    /\ Len(outcomes[1]) = 7
    /\ \A o \in 1..7 : outcomes[1][o] = {"Failed"}

\* the project list was fetched and main returned before the loop: no project
\* has the configured name
ProjectNotFoundState(p) ==
    /\ pc[p] = "return"
    /\ opsDone[p] = <<"projects">>
    /\ okCalls[p] >= 1

\* the iteration of run p has ended as skipped for a missing tab or date
SkippedNotFound(p) ==
    /\ pc[p] = "loop"
    /\ outcomes[p] # <<>>
    /\ Current(p) \cap {"SkippedTabMissing", "SkippedDateNotFound"} # {}

\* C9 as stated: when the project list is fetched and holds no project of the
\* configured name, or the tab list is fetched and lacks the tab, or the rows
\* are fetched and lack the date, the request was made exactly once.
C9_ExactlyOneRequest ==
    \A p \in Procs : (ProjectNotFoundState(p) \/ SkippedNotFound(p)) => lastCalls[p] = 1

\* C9 as amended: in these cases the request that was answered is the last
\* of the run (project) or of the day (tab, date) and the only answered one of
\* its call, preceded by at most two failed attempts; the run ends with
\* main returning 1, the day ends as Skipped and not as Failed, and a fetched
\* tab list without the tab, or fetched rows without the date, always end
\* the day so.
C9_NotFoundNotRetried ==
    \A p \in Procs :
        /\ ProjectNotFoundState(p) =>
              /\ ret[p] = 1
              /\ okCalls[p] = 1
              /\ lastCalls[p] <= DefaultMaxRetries
              /\ attempted[p] = <<>>
        /\ SkippedNotFound(p) =>
              /\ Cardinality(Current(p)) = 1
              /\ okCalls[p] = 1
              /\ lastCalls[p] <= DefaultMaxRetries
              /\ Current(p) = {"SkippedTabMissing"} => opsDone[p] = <<"listTabs">>
              /\ Current(p) = {"SkippedDateNotFound"} =>
                    opsDone[p] = <<"listTabs", "readRows">>
        /\ (pc[p] \in IterationPcs \cup {"loop"} /\ "projects" \notin Range(opsDone[p])) =>
              /\ ("listTabs" \in okOps[p] /\ current_tab_name[p] \notin DOMAIN sheet) =>
                    /\ pc[p] = "loop"
                    /\ Current(p) = {"SkippedTabMissing"}
              /\ ("readRows" \in okOps[p] /\ row_index[p] = -1) =>
                    /\ pc[p] = "loop"
                    /\ Current(p) = {"SkippedDateNotFound"}

\* C9 witness: the tab list was fetched at the second attempt, the tab is
\* missing and the day was skipped.
C9_Witness ==
    /\ pc[1] = "loop"
    /\ outcomes[1] # <<>>
    /\ Current(1) = {"SkippedTabMissing"}
    /\ lastCalls[1] = 2
    /\ okCalls[1] = 1

DayOrder == <<"listTabs", "readRows", "readCell", "fetchCompletedTasks", "writeCell">>

DayOutcomes == {"Written", "SkippedAlreadyFilled", "SkippedTabMissing",
                "SkippedDateNotFound", "Failed"}

\* C10: an iteration that has ended has exactly one of the five outcomes and
\* one under way has none; the operations an iteration calls are an initial
\* part of listTabs, readRows, readCell, fetchCompletedTasks, writeCell; rows
\* are read only of a tab that was found, the cell only of a row that holds
\* the date, tasks are fetched only after the cell was read as empty, the
\* cell is written only after the tasks were fetched; and a skipped
\* iteration neither fetched tasks nor wrote.
C10_DayStateMachine ==
    \A p \in Procs :
        /\ \A o \in 1..Len(outcomes[p]) :
              /\ outcomes[p][o] \subseteq DayOutcomes
              /\ Finished(p, o) => Cardinality(outcomes[p][o]) = 1
              /\ ~Finished(p, o) => outcomes[p][o] = {}
        /\ attempted[p] # <<>> =>
              /\ Len(opsDone[p]) <= Len(DayOrder)
              /\ \A i \in 1..Len(opsDone[p]) : opsDone[p][i] = DayOrder[i]
              /\ okOps[p] \subseteq Range(opsDone[p])
              /\ "readRows" \in Range(opsDone[p]) =>
                    /\ "listTabs" \in okOps[p]
                    /\ current_tab_name[p] \in DOMAIN sheet
              /\ "readCell" \in Range(opsDone[p]) =>
                    /\ "readRows" \in okOps[p]
                    /\ row_index[p] \in 1..Len(sheet[current_tab_name[p]])
                    /\ sheet[current_tab_name[p]][row_index[p]].a = iso_date[p]
              /\ "fetchCompletedTasks" \in Range(opsDone[p]) =>
                    /\ "readCell" \in okOps[p]
                    /\ ~Truthy(cell_value[p])
              /\ "writeCell" \in Range(opsDone[p]) =>
                    "fetchCompletedTasks" \in okOps[p]
              /\ (pc[p] = "loop" /\ Current(p) \cap {"SkippedAlreadyFilled",
                      "SkippedTabMissing", "SkippedDateNotFound"} # {}) =>
                    Range(opsDone[p]) \cap {"fetchCompletedTasks", "writeCell"} = {}
              /\ (pc[p] = "loop" /\ "Written" \in Current(p)) => "writeCell" \in okOps[p]

\* C10 witness: an iteration went through all five operations and ended as
\* Written.
C10_Witness ==
    /\ pc[1] = "loop"
    /\ outcomes[1] # <<>>
    /\ Current(1) = {"Written"}
    /\ opsDone[1] = DayOrder

\* the writes of run p that the service applied
WritesOf(p) == {k \in 1..Len(writes) : writes[k].proc = p}

\* the date an iteration for offset o is about, and the tab of its month
DateOfOffset(o) == FromOrdinal(ToOrdinal(utc_today) - o)
TabOfDate(d) == month_dict[Pad2(d.month)] \o <<"-">> \o Pad2(d.year % 100)

\* the range names column E of the first row of the offset's tab whose
\* column A is the offset's date
IsCellOfOffset(range, o) ==
    LET d    == DateOfOffset(o)
        tab  == TabOfDate(d)
        date == DateIso(d)
        n    == ParseDec(Tail(RangeCells(range)))
    IN  /\ HasBang(range)
        /\ RangeTab(range) = tab
        /\ tab \in DOMAIN sheet
        /\ RangeCells(range)[1] = "E"
        /\ n \in 1..Len(sheet[tab])
        /\ sheet[tab][n].a = date
        /\ \A i \in 1..(n - 1) : sheet[tab][i].a # date

WritesWithinFrame ==
    \A p \in Procs :
        /\ Cardinality(WritesOf(p)) <= Len(Window)
        /\ \A k, l \in WritesOf(p) : writes[k].days_ago = writes[l].days_ago => k = l
        /\ \A k \in WritesOf(p) :
              /\ writes[k].days_ago \in Range(attempted[p])
              /\ IsCellOfOffset(writes[k].range, writes[k].days_ago)
        /\ Cardinality({i \in 1..Len(opsDone[p]) : opsDone[p][i] = "writeCell"}) <= 1
        /\ \A o \in 1..Len(outcomes[p]) :
              (Finished(p, o) /\ "Written" \notin outcomes[p][o]) => ~WroteFor(p, o)

\* a step that changes the spreadsheet is the answered update of a run's
\* iteration: it changes the one cell, ends the iteration as Written, and
\* adds one write to the log; any other step leaves the spreadsheet as it is
OneCellPerStep ==
    sheet' # sheet =>
        \E p \in Procs :
            /\ pc[p] = "update_cell"
            /\ pc'[p] = "loop"
            /\ outcomes'[p][Len(outcomes'[p])] = {"Written"}
            /\ IsCellOfOffset(cell_to_check[p], days_ago[p])
            /\ Len(writes') = Len(writes) + 1
            /\ writes'[Len(writes')].proc = p
            /\ writes'[Len(writes')].days_ago = days_ago[p]
            /\ DOMAIN sheet' = DOMAIN sheet
            /\ \A tab \in DOMAIN sheet :
                  /\ Len(sheet'[tab]) = Len(sheet[tab])
                  /\ \A i \in 1..Len(sheet[tab]) :
                        /\ sheet'[tab][i].a = sheet[tab][i].a
                        /\ sheet'[tab][i].e # sheet[tab][i].e =>
                              /\ tab = RangeTab(cell_to_check[p])
                              /\ i = ParseDec(Tail(RangeCells(cell_to_check[p])))
                              /\ sheet'[tab][i].e = string_to_insert[p]

\* C18: a run's writes are at most one per offset and at most seven, each
\* to column E of the row located for the offset's date in the tab of its
\* month; a step of a run changes the spreadsheet only by such a write, one
\* cell at a time; and an iteration that ended as skipped or failed wrote
\* nothing.
C18_RunFrame == []WritesWithinFrame /\ [][OneCellPerStep]_vars

\* C18 witness: a run that wrote the cells of offsets 1 to 4, skipped
\* offsets 5 and 7 and failed on offset 6 has returned; the cell of offset
\* 7 holds what it held, and so does the cell of offset 6.
C18_Witness ==
    /\ pc[1] = "return"
    /\ {writes[k].days_ago : k \in WritesOf(1)} = {1, 2, 3, 4}
    /\ outcomes[1][5] = {"SkippedDateNotFound"}
    /\ outcomes[1][6] = {"Failed"}
    /\ outcomes[1][7] = {"SkippedAlreadyFilled"}
    /\ sheet[<<"D", "e", "c", "-", "2", "3">>][2].e = <<"d", "o", "n", "e">>
    /\ sheet[<<"D", "e", "c", "-", "2", "3">>][3].e = <<>>

(***************************************************************************)
(* Lines 294-329 of an iteration on its own, for any rows of the tab: the  *)
(* run stands at line 294 of its first iteration, the tab list fetched and *)
(* the tab found.                                                          *)
(***************************************************************************)
\* the grid rows a tab may hold: column A empty, a header, the target day of
\* one clock or of the other; column E empty or filled
RowKinds ==
    { [a |-> a, e |-> e] :
        a \in { <<>>, <<"D", "a", "t", "e">>,
                DateIso([year |-> 2024, month |-> 1, day |-> 2]),
                DateIso([year |-> 2024, month |-> 1, day |-> 3]) },
        e \in { <<>>, <<"x">> } }

RowSheets ==
    { (<<"J", "a", "n", "-", "2", "4">> :> rows) :
        rows \in UNION { [1..k -> RowKinds] : k \in 0..MaxRows } }

\* the dates of the clock under which the rows are scanned
RowClocks == { [year |-> 2024, month |-> 1, day |-> 3], [year |-> 2024, month |-> 1, day |-> 4] }

\* run 1 stands at a call of its first iteration, the calls named in done
\* having been answered at the first request, and no other run has begun
FirstIterationAt(at, done, idx, cell) ==
    LET range == get_day_iso_range(utc_today, FirstDaysAgo)
        parts == split_date_string(range.start)
    IN  /\ pc = [p \in Procs |-> IF p = 1 THEN at ELSE "idle"]
        /\ attempt = [p \in Procs |-> 0]
        /\ project_id = [p \in Procs |-> IF p = 1 THEN Some(2) ELSE None]
        /\ days_ago = [p \in Procs |-> IF p = 1 THEN FirstDaysAgo ELSE FirstDaysAgo - 1]
        /\ start_iso = [p \in Procs |-> IF p = 1 THEN range.start ELSE <<>>]
        /\ end_iso = [p \in Procs |-> IF p = 1 THEN range.end ELSE <<>>]
        /\ iso_date = [p \in Procs |-> IF p = 1 THEN parts.short_iso_date ELSE <<>>]
        /\ current_tab_name = [p \in Procs |->
               IF p = 1 THEN get_tab_name(parts.short_year, parts.short_month) ELSE <<>>]
        /\ row_index = [p \in Procs |-> IF p = 1 THEN idx ELSE -1]
        /\ cell_to_check = [p \in Procs |-> IF p = 1 THEN cell ELSE <<>>]
        /\ cell_value = [p \in Procs |-> None]
        /\ string_to_insert = [p \in Procs |-> <<>>]
        /\ ret = [p \in Procs |-> -1]
        /\ exit_status = [p \in Procs |-> -1]
        /\ attempted = [p \in Procs |-> IF p = 1 THEN <<FirstDaysAgo>> ELSE <<>>]
        /\ outcomes = [p \in Procs |-> IF p = 1 THEN << {} >> ELSE <<>>]
        /\ opsDone = [p \in Procs |-> IF p = 1 THEN done ELSE <<>>]
        /\ okOps = [p \in Procs |-> IF p = 1 THEN Range(done) ELSE {}]
        /\ lastCalls = [p \in Procs |-> IF p = 1 THEN 1 ELSE 0]
        /\ okCalls = [p \in Procs |-> IF p = 1 THEN 1 ELSE 0]
        /\ writes = <<>>

\* run 1 at line 294 of the iteration for days_ago = 1
InitRows ==
    /\ env = EnvOk
    /\ projects = << [id |-> 2, name |-> "Work"] >>
    /\ taskdb = << [project_id |-> 2, at |-> <<Day(2024, 1, 2), 7, 0>>, content |-> Some(<<"A">>)] >>
    /\ utc_today \in RowClocks
    /\ sheet \in RowSheets
    /\ FirstIterationAt("get_rows", <<"listTabs">>, -1, <<>>)
    /\ InitRetryIdle

NextRows == GetRows(1) \/ GetCellValue(1) \/ GetCompletedTasks(1) \/ UpdateCell(1)

SpecRows == InitRows /\ [][NextRows]_vars

(***************************************************************************)
(* Properties of the row scan, checked under SpecRows.                     *)
(***************************************************************************)
\* the rows of the tab as get_rows_from_google_sheet fetches them; column A
\* is never written, so the rows that hold a date stay the same
FetchedRows(p) == ServerGetValues(sheet, RowsRange(current_tab_name[p]))

\* the 1-based numbers of the fetched rows whose column A is the date
Matches(p) ==
    {i \in 1..Len(FetchedRows(p)) :
        Len(FetchedRows(p)[i]) > 0 /\ FetchedRows(p)[i][1] = iso_date[p]}

\* the range names column E of row n of the tab
IsColumnE(range, tab, n) ==
    /\ HasBang(range)
    /\ RangeTab(range) = tab
    /\ RangeCells(range)[1] = "E"
    /\ IsNumber(Tail(RangeCells(range)))
    /\ ParseDec(Tail(RangeCells(range))) = n

RowLocated ==
    \A p \in Procs :
        "readRows" \in okOps[p] =>
            /\ Matches(p) = {} =>
                  /\ row_index[p] = -1
                  /\ pc[p] = "loop"
                  /\ Current(p) = {"SkippedDateNotFound"}
                  /\ Range(opsDone[p]) \cap {"readCell", "writeCell"} = {}
            /\ Matches(p) # {} =>
                  /\ row_index[p] \in Matches(p)
                  /\ \A i \in Matches(p) : row_index[p] <= i
                  /\ row_index[p] - 1 >= 0
                  /\ IsColumnE(cell_to_check[p], current_tab_name[p], row_index[p])
                  /\ ("readCell" \in okOps[p] /\ ~WroteFor(p, days_ago[p])) =>
                        cell_value[p] =
                            (IF sheet[current_tab_name[p]][row_index[p]].e = <<>>
                             THEN None
                             ELSE Some(sheet[current_tab_name[p]][row_index[p]].e))
                  /\ \A k \in 1..Len(writes) :
                        writes[k].proc = p => writes[k].range = cell_to_check[p]

\* a step that changes the spreadsheet changes column E of the located row of
\* the resolved tab, and nothing else
WritesLocatedCell ==
    sheet' # sheet =>
        \E p \in Procs :
            /\ row_index[p] \in Matches(p)
            /\ \A i \in Matches(p) : row_index[p] <= i
            /\ sheet' = [sheet EXCEPT ![current_tab_name[p]][row_index[p]].e =
                                           string_to_insert[p]]

\* C11: once the rows are fetched, the row located is the first (top-most)
\* fetched row whose column A equals the target date, numbered from 1 as the
\* spreadsheet numbers its rows (zero-based index plus one), and no row is
\* located when no fetched row holds the date; the cell then read and
\* written is column E of that row of the resolved tab.
C11_FirstMatchColumnE == []RowLocated /\ [][WritesLocatedCell]_vars

\* C11 witness: the first fetched row is an empty list, rows 2 and 3 both hold
\* the date, and the run read and wrote E2 and left E3 empty.
C11_Witness ==
    /\ pc[1] = "loop"
    /\ Current(1) = {"Written"}
    /\ FetchedRows(1)[1] = <<>>
    /\ Matches(1) = {2, 3}
    /\ row_index[1] = 2
    /\ cell_to_check[1] = <<"J", "a", "n", "-", "2", "4", "!", "E", "2">>
    /\ sheet[current_tab_name[1]][2].e # <<>>
    /\ sheet[current_tab_name[1]][3].e = <<>>

(***************************************************************************)
(* Lines 316-329 of an iteration on its own, for any completed tasks of    *)
(* the day: the run stands at line 316 of its first iteration, the cell    *)
(* read as empty.                                                          *)
(***************************************************************************)
\* the completed tasks an account may hold for 2 January 2024: of the
\* project with a content, an empty content, a null content or no content
\* key, and of another project
TaskKinds ==
    { [project_id |-> 2, at |-> <<Day(2024, 1, 2), 7, 0>>, content |-> Some(<<"A">>)],
      [project_id |-> 2, at |-> <<Day(2024, 1, 2), 8, 0>>, content |-> Some(<<"B", "c">>)],
      [project_id |-> 2, at |-> <<Day(2024, 1, 2), 9, 0>>, content |-> Some(<<>>)],
      [project_id |-> 2, at |-> <<Day(2024, 1, 2), 9, 5>>, content |-> None],
      [project_id |-> 2, at |-> <<Day(2024, 1, 2), 9, 6>>],
      [project_id |-> 9, at |-> <<Day(2024, 1, 2), 9, 7>>, content |-> Some(<<"X">>)] }

TaskLists == UNION { [1..k -> TaskKinds] : k \in 0..MaxTasks }

InitFormat ==
    /\ env = EnvOk
    /\ projects = << [id |-> 2, name |-> "Work"] >>
    /\ taskdb \in TaskLists
    /\ utc_today = [year |-> 2024, month |-> 1, day |-> 3]
    /\ sheet = (<<"J", "a", "n", "-", "2", "4">> :>
                   << [a |-> <<"D", "a", "t", "e">>, e |-> <<"D", "o", "n", "e">>],
                      [a |-> DateIso([year |-> 2024, month |-> 1, day |-> 2]), e |-> <<>>] >>)
    /\ FirstIterationAt("get_tasks", <<"listTabs", "readRows", "readCell">>, 2,
                        <<"J", "a", "n", "-", "2", "4", "!", "E", "2">>)
    /\ InitRetryIdle

NextFormat == GetCompletedTasks(1) \/ UpdateCell(1)

SpecFormat == InitFormat /\ [][NextFormat]_vars

(***************************************************************************)
(* Properties of the formatting, checked under SpecFormat.                 *)
(***************************************************************************)
\* the tasks get_completed_tasks returns to the iteration of run p
FetchedTasks(p) == ServerCompleted(taskdb, start_iso[p], end_iso[p], project_id[p][1])

\* the i-th fetched task has a content field that is null
NullContent(p, i) ==
    "content" \in DOMAIN FetchedTasks(p)[i] /\ FetchedTasks(p)[i].content = None

\* the content field of the i-th fetched task, "" for a task without one (a
\* null content is no string: no value is written for a list that has one)
ContentOf(p, i) ==
    IF "content" \in DOMAIN FetchedTasks(p)[i] /\ ~NullContent(p, i)
    THEN FetchedTasks(p)[i].content[1]
    ELSE <<>>

\* where the i-th content begins in the joined string (0-based): after the
\* contents before it and one "; " for each of them
RECURSIVE OffsetOf(_, _)
OffsetOf(p, i) == IF i = 1 THEN 0 ELSE OffsetOf(p, i - 1) + Len(ContentOf(p, i - 1)) + 2

\* value is the contents of the fetched tasks in fetch order with "; " between
\* consecutive ones and nowhere else
IsJoined(p, value) ==
    LET n == Len(FetchedTasks(p))
    IN  /\ Len(value) = OffsetOf(p, n) + Len(ContentOf(p, n))
        /\ \A i \in 1..n :
              /\ SubSeq(value, OffsetOf(p, i) + 1, OffsetOf(p, i) + Len(ContentOf(p, i)))
                     = ContentOf(p, i)
              /\ i < n => SubSeq(value, OffsetOf(p, i) + Len(ContentOf(p, i)) + 1,
                                 OffsetOf(p, i + 1)) = <<";", " ">>

\* value is what the formatting rule gives for the fetched tasks
IsFormatted(p, value) ==
    IF Len(FetchedTasks(p)) = 0 THEN value = <<"N", "/", "A">> ELSE IsJoined(p, value)

\* C12: once the tasks are fetched, the value to insert, and the value of
\* every write, is "N/A" for an empty list and otherwise the content fields in
\* fetch order with "; " between consecutive ones only (a task without a
\* content field counting as ""); when a content is null nothing is written.
C12_WrittenValueFormat ==
    \A p \in Procs :
        "fetchCompletedTasks" \in okOps[p] =>
            /\ (\E i \in 1..Len(FetchedTasks(p)) : NullContent(p, i))
                  => /\ pc[p] = "loop"
                     /\ Current(p) = {"Failed"}
                     /\ ~WroteFor(p, days_ago[p])
            /\ pc[p] = "update_cell" => IsFormatted(p, string_to_insert[p])
            /\ \A k \in 1..Len(writes) :
                  writes[k].proc = p =>
                      /\ IsFormatted(p, writes[k].value)
                      /\ sheet[current_tab_name[p]][row_index[p]].e = writes[k].value

\* C12 witness: the tasks fetched have the contents "A" and "Bc" and the run
\* wrote "A; Bc".
C12_Witness ==
    /\ Len(FetchedTasks(1)) = 2
    /\ ContentOf(1, 1) = <<"A">>
    /\ ContentOf(1, 2) = <<"B", "c">>
    /\ Len(writes) = 1
    /\ writes[1].value = <<"A", ";", " ", "B", "c">>

\* C12 second case: no task was fetched and the run wrote "N/A"
C12_WitnessEmpty ==
    /\ Len(FetchedTasks(1)) = 0
    /\ Len(writes) = 1
    /\ writes[1].value = <<"N", "/", "A">>

(***************************************************************************)
(* get_day_iso_range(days_ago) on its own: the function is called with any *)
(* offset of the window under a clock that stands still; run 1's           *)
(* variables days_ago, start_iso and end_iso hold the argument and the     *)
(* result of the latest call.                                              *)
(***************************************************************************)
\* the UTC dates of the clock: the first eight days of January, March and
\* December of a common year, a leap year and a century year that is none
RangeClocks ==
    { [year |-> y, month |-> m, day |-> d] :
        y \in {2023, 2024, 2100}, m \in {1, 3, 12}, d \in 1..8 }

InitRange ==
    /\ env = EnvOk
    /\ projects = <<>>
    /\ taskdb = <<>>
    /\ utc_today \in RangeClocks
    /\ sheet = WorldB.sheet
    /\ InitProcs
    /\ InitRetryIdle

\* start_iso, end_iso = get_day_iso_range(days_ago)
CallGetDayIsoRange ==
    \E o \in FirstDaysAgo..(RangeStop - 1) :
        /\ days_ago' = [days_ago EXCEPT ![1] = o]
        /\ start_iso' = [start_iso EXCEPT ![1] = get_day_iso_range(utc_today, o).start]
        /\ end_iso' = [end_iso EXCEPT ![1] = get_day_iso_range(utc_today, o).end]
        /\ UNCHANGED <<envVars, sheet, pc, attempt, project_id, iso_date, current_tab_name,
                       row_index, cell_to_check, cell_value, string_to_insert, ret,
                       exit_status, attempted, outcomes, callVars, writes, retryVars>>

NextRange == CallGetDayIsoRange

SpecRange == InitRange /\ [][NextRange]_vars

(***************************************************************************)
(* Properties of the day ranges, checked under SpecRange.  An instant is   *)
(* <<day, second of the day, microsecond of the second>>, the day being    *)
(* the number of days since 0001-01-01, so that a count of microseconds is *)
(* exact without leaving the range of the integers at hand.                *)
(***************************************************************************)
SecondsPerDay == 24 * 60 * 60
MicrosPerSecond == 1000 * 1000

\* the instant one microsecond after t
PlusOneMicro(t) ==
    IF t[3] + 1 < MicrosPerSecond THEN <<t[1], t[2], t[3] + 1>>
    ELSE IF t[2] + 1 < SecondsPerDay THEN <<t[1], t[2] + 1, 0>>
    ELSE <<t[1] + 1, 0, 0>>

\* b - a as <<whole seconds, microseconds>>, for a <= b
Elapsed(a, b) ==
    LET secs == (b[1] - a[1]) * SecondsPerDay + (b[2] - a[2])
    IN  IF b[3] >= a[3] THEN <<secs, b[3] - a[3]>>
        ELSE <<secs - 1, b[3] + MicrosPerSecond - a[3]>>

\* the days of the years before year y, counted year by year: 365 each and
\* one more for every leap year among them
DaysOfYearsBefore(y) == 365 * (y - 1) + Cardinality({k \in 1..(y - 1) : IsLeap(k)})

\* the range of offset o under the clock of the state, as instants
StartOf(o) == ParseIsoZ(get_day_iso_range(utc_today, o).start)
EndOf(o) == ParseIsoZ(get_day_iso_range(utc_today, o).end)

\* instant t lies in the range of offset o
InRangeOf(t, o) == InstantLeq(StartOf(o), t) /\ InstantLeq(t, EndOf(o))

\* C13: under one clock, the range the function returned for offset o starts
\* at midnight of the day o days before the clock's date and ends on the same
\* date 24 hours less one microsecond later; the range of offset o + 1 ends
\* one microsecond before that of offset o starts; and the first, last and
\* a middle instant of every range lie in the range of exactly one offset.
C13_DayWindowArithmetic ==
    /\ days_ago[1] >= FirstDaysAgo =>
          LET o == days_ago[1]
              s == ParseIsoZ(start_iso[1])
              e == ParseIsoZ(end_iso[1])
          IN  /\ s = <<ToOrdinal(utc_today) - o, 0, 0>>
              /\ s[1] = DaysOfYearsBefore(ParseDec(Slice(start_iso[1], 0, 4)))
                         + DaysBeforeMonth(ParseDec(Slice(start_iso[1], 0, 4)),
                                           ParseDec(Slice(start_iso[1], 5, 7)))
                         + ParseDec(Slice(start_iso[1], 8, 10))
              /\ e[1] = s[1]
              /\ Slice(start_iso[1], 0, 10) = Slice(end_iso[1], 0, 10)
              /\ Elapsed(s, e) = <<SecondsPerDay - 1, MicrosPerSecond - 1>>
              /\ PlusOneMicro(e) = <<s[1] + 1, 0, 0>>
              /\ s = StartOf(o) /\ e = EndOf(o)
    /\ \A o \in FirstDaysAgo..(RangeStop - 2) :
          /\ PlusOneMicro(EndOf(o + 1)) = StartOf(o)
          /\ ~InstantLeq(StartOf(o), EndOf(o + 1))
    /\ \A o \in FirstDaysAgo..(RangeStop - 1) :
          \A t \in {StartOf(o), EndOf(o), <<StartOf(o)[1], 43200, 500000>>} :
              Cardinality({o2 \in FirstDaysAgo..(RangeStop - 1) : InRangeOf(t, o2)}) = 1

\* C13 witness: on 3 March 2024 the range of offset 3 is 29 February, from
\* 00:00:00 to 23:59:59.999999.
C13_Witness ==
    /\ utc_today = [year |-> 2024, month |-> 3, day |-> 3]
    /\ days_ago[1] = 3
    /\ Slice(start_iso[1], 0, 19) = <<"2", "0", "2", "4", "-", "0", "2", "-", "2", "9",
                                      "T", "0", "0", ":", "0", "0", ":", "0", "0">>
    /\ ParseIsoZ(end_iso[1]) = <<Day(2024, 2, 29), SecondsPerDay - 1, MicrosPerSecond - 1>>

(***************************************************************************)
(* Two runs of the script at the same time against one spreadsheet: the    *)
(* script takes no lock, so either run may be started while the other is   *)
(* under way, and their requests interleave in any order.                  *)
(***************************************************************************)
ConcurrentProcs == {1, 2}

InitConcurrent ==
    /\ env = EnvOk
    /\ projects = << [id |-> 1, name |-> "Inbox"], [id |-> 2, name |-> "Work"] >>
    /\ utc_today = WorldB.today /\ sheet = WorldB.sheet /\ taskdb = WorldB.tasks
    /\ InitProcs
    /\ InitRetryIdle

\* the script is started, whatever the other run is doing
LaunchConcurrently(p) ==
    /\ pc[p] = "idle"
    /\ pc' = [pc EXCEPT ![p] = "import"]
    /\ UNCHANGED <<envVars, sheet, attempt, project_id, days_ago, iterVars, ret,
                   exit_status, attempted, outcomes, callVars, writes, retryVars>>

\* what the services do in these runs: requests may fail in the iteration of
\* the first offset, the one day of the window that has a row, and before
\* the loop; the requests of the later iterations are answered
AnsweredAfterFirstDay(p) == days_ago[p] <= FirstDaysAgo \/ okCalls'[p] = 1

NextConcurrent ==
    \E p \in ConcurrentProcs :
        \/ LaunchConcurrently(p)
        \/ ImportModule(p)
        \/ ValidateConfiguration(p)
        \/ GetGoogleSheetsService(p)
        \/ GetProjectId(p)
        \/ ForLoop(p)
        \/ ListSheetTabs(p) /\ AnsweredAfterFirstDay(p)
        \/ GetRows(p) /\ AnsweredAfterFirstDay(p)
        \/ GetCellValue(p) /\ AnsweredAfterFirstDay(p)
        \/ GetCompletedTasks(p) /\ AnsweredAfterFirstDay(p)
        \/ UpdateCell(p) /\ AnsweredAfterFirstDay(p)
        \/ ScriptExit(p)

SpecConcurrent == InitConcurrent /\ [][NextConcurrent]_vars

(***************************************************************************)
(* Properties of concurrent runs, checked under SpecConcurrent.            *)
(***************************************************************************)
\* both runs have read the cell of the same date as empty and both have then
\* written it
BothReadEmptyBothWrote ==
    /\ Len(writes) = 2
    /\ writes[1].proc # writes[2].proc
    /\ writes[1].range = writes[2].range
    /\ writes[1].days_ago = writes[2].days_ago
    /\ writes[1].old = <<>>
    /\ writes[2].old # <<>>

\* C14: each run by itself makes the check (it requests a write only after
\* it read that cell as empty in the same iteration), and still a write may
\* hit a cell that holds a value: it then holds exactly what the other run
\* wrote to it after this run had read it as empty.
C14_CheckDoesNotProtect ==
    /\ \A p \in ConcurrentProcs :
          "writeCell" \in Range(opsDone[p]) =>
              "readCell" \in okOps[p] /\ ~Truthy(cell_value[p])
    /\ \A i \in 1..Len(writes) :
          writes[i].old # <<>> =>
              \E j \in 1..(i - 1) :
                  /\ writes[j].proc # writes[i].proc
                  /\ writes[j].range = writes[i].range
                  /\ writes[i].old = ValuesOf(writes[j].value)

\* C14 witness: both runs are past their read of the cell of the first
\* offset, both read it as empty, and both writes were applied, the second
\* one to the cell the first had filled.
C14_Witness ==
    /\ BothReadEmptyBothWrote
    /\ \A p \in ConcurrentProcs :
          /\ days_ago[p] = FirstDaysAgo
          /\ "readCell" \in okOps[p]
          /\ cell_value[p] = None
          /\ "writeCell" \in okOps[p]

(***************************************************************************)
(* A run in which get_day_iso_range is replaced by a stub: the program     *)
(* itself hands get_tab_name only the months of real dates, so the months  *)
(* outside "01".."12" reach line 285 only from a stubbed range.  Each       *)
(* iteration begins with the real range or with one of the stub's.         *)
(***************************************************************************)
\* the start strings of the stub: months 13 and 00, a month of one digit, an
\* empty string, and a month whose tab the spreadsheet lacks
StubStarts ==
    { <<"2", "0", "2", "4", "-", "1", "3", "-", "0", "5", "T", "0", "0", ":", "0", "0", ":", "0", "0", "Z">>,
      <<"2", "0", "2", "4", "-", "0", "0", "-", "0", "5", "T", "0", "0", ":", "0", "0", ":", "0", "0", "Z">>,
      <<"2", "0", "2", "4", "-", "1", "-", "0", "5", "T", "0", "0", ":", "0", "0", ":", "0", "0", "Z">>,
      <<>>,
      <<"2", "0", "2", "4", "-", "0", "6", "-", "0", "5", "T", "0", "0", ":", "0", "0", ":", "0", "0", "Z">> }

StubRanges ==
    { [start |-> s,
       end   |-> Slice(s, 0, 10) \o <<"T", "2", "3", ":", "5", "9", ":", "5", "9", ".",
                                      "9", "9", "9", "9", "9", "9", "Z">>] : s \in StubStarts }

InitTab ==
    /\ env = EnvOk
    /\ projects = << [id |-> 1, name |-> "Inbox"], [id |-> 2, name |-> "Work"] >>
    /\ utc_today = WorldA.today /\ sheet = WorldA.sheet /\ taskdb = WorldA.tasks
    /\ InitProcs
    /\ InitRetryIdle

\* the for statement with the stub's range in the place of line 280's
ForLoopStubbed(p) ==
    /\ pc[p] = "loop"
    /\ days_ago[p] + 1 < RangeStop
    /\ \E range \in StubRanges : BeginIteration(p, days_ago[p] + 1, range)
    /\ UNCHANGED <<envVars, sheet, project_id, exit_status, writes, retryVars>>

NextTab ==
    \/ Launch(1)
    \/ ImportModule(1)
    \/ ValidateConfiguration(1)
    \/ GetGoogleSheetsService(1)
    \/ GetProjectId(1)
    \/ ForLoop(1)
    \/ ForLoopStubbed(1)
    \/ ListSheetTabs(1)
    \/ GetRows(1)
    \/ GetCellValue(1)
    \/ GetCompletedTasks(1)
    \/ UpdateCell(1)
    \/ ScriptExit(1)

SpecTab == InitTab /\ [][NextTab]_vars

(***************************************************************************)
(* Properties of the tab resolution, checked under SpecTab.                *)
(***************************************************************************)
\* the abbreviations of the months, by the number of the month
MonthAbbrevs ==
    << <<"J", "a", "n">>, <<"F", "e", "b">>, <<"M", "a", "r">>, <<"A", "p", "r">>,
       <<"M", "a", "y">>, <<"J", "u", "n">>, <<"J", "u", "l">>, <<"A", "u", "g">>,
       <<"S", "e", "p">>, <<"O", "c", "t">>, <<"N", "o", "v">>, <<"D", "e", "c">> >>

\* a string of two digits that names one of the months 01..12
IsMonth(m) == Len(m) = 2 /\ IsNumber(m) /\ ParseDec(m) \in 1..12

\* the month and the two-digit year of the day the iteration of run p is about
MonthOf(p) == Slice(start_iso[p], 5, 7)
YearOf(p) == Slice(start_iso[p], 2, 4)

\* the tab named after the month and year of the iteration's day
OwnTab(p) == MonthAbbrevs[ParseDec(MonthOf(p))] \o <<"-">> \o YearOf(p)

\* the iteration of run p began with the range of the clock's date
RealRange(p) == start_iso[p] = get_day_iso_range(utc_today, days_ago[p]).start

\* C16: get_tab_name gives "Jan-24" for "24", "01" and "Dec-24" for "24",
\* "12"; an iteration whose month is one of 01..12 checks, reads and writes
\* the tab named after its own day's month and two-digit year, which for
\* the clock's ranges is the month of the day days_ago days back; an
\* iteration whose month is none of them has failed without any request, the
\* loop goes on, and main returns 0 after seven iterations.
C16_TabOfOwnMonth ==
    /\ get_tab_name(<<"2", "4">>, <<"0", "1">>) = <<"J", "a", "n", "-", "2", "4">>
    /\ get_tab_name(<<"2", "4">>, <<"1", "2">>) = <<"D", "e", "c", "-", "2", "4">>
    /\ \A p \in Procs :
          /\ (pc[p] \in IterationPcs \cup {"loop", "return"} /\ attempted[p] # <<>>) =>
                IF IsMonth(MonthOf(p))
                THEN /\ current_tab_name[p] = OwnTab(p)
                     /\ RealRange(p) =>
                           LET day == FromOrdinal(ToOrdinal(utc_today) - days_ago[p])
                           IN  current_tab_name[p] =
                                   MonthAbbrevs[day.month] \o <<"-">> \o Pad2(day.year % 100)
                     /\ ("listTabs" \in okOps[p] /\ OwnTab(p) \notin DOMAIN sheet) =>
                           Current(p) = {"SkippedTabMissing"}
                     /\ cell_to_check[p] # <<>> => RangeTab(cell_to_check[p]) = OwnTab(p)
                     /\ \A k \in 1..Len(writes) :
                           (writes[k].proc = p /\ writes[k].days_ago = days_ago[p]) =>
                               RangeTab(writes[k].range) = OwnTab(p)
                ELSE /\ Current(p) = {"Failed"}
                     /\ opsDone[p] = <<>>
                     /\ pc[p] \in {"loop", "return"}
                     /\ ret[p] \in {-1, 0}
          /\ attempted[p] # <<>> => ret[p] # 1
          /\ (pc[p] = "return" /\ attempted[p] # <<>>) =>
                ret[p] = 0 /\ Len(outcomes[p]) = Len(Window)

\* C16 witness: the run wrote a cell of Jan-24 for offset 1 and a cell of
\* Dec-23 for offset 4, its last iteration was for month 13 and failed, and
\* main returned 0.
C16_Witness ==
    /\ pc[1] = "return"
    /\ ret[1] = 0
    /\ MonthOf(1) = <<"1", "3">>
    /\ outcomes[1][7] = {"Failed"}
    /\ \E i, j \in 1..Len(writes) :
          /\ writes[i].days_ago = 1
          /\ RangeTab(writes[i].range) = <<"J", "a", "n", "-", "2", "4">>
          /\ writes[j].days_ago = 4
          /\ RangeTab(writes[j].range) = <<"D", "e", "c", "-", "2", "3">>

(***************************************************************************)
(* A run during which the clock goes on: get_day_iso_range reads the clock *)
(* anew in every iteration (line 96), and the UTC date may change between  *)
(* any two steps of the run.                                               *)
(***************************************************************************)
\* the UTC date at which the run is started
ClockStart == WorldA.today

InitClock ==
    /\ env = EnvOk
    /\ projects = << [id |-> 1, name |-> "Inbox"], [id |-> 2, name |-> "Work"] >>
    /\ utc_today = ClockStart /\ sheet = WorldA.sheet /\ taskdb = WorldA.tasks
    /\ InitProcs
    /\ InitRetryIdle

\* midnight UTC passes while run 1 is under way
Midnight ==
    /\ pc[1] \notin {"idle", "exited"}
    /\ ToOrdinal(utc_today) - ToOrdinal(ClockStart) < MaxMidnights
    /\ utc_today' = FromOrdinal(ToOrdinal(utc_today) + 1)
    /\ UNCHANGED <<env, projects, taskdb, sheet, pc, attempt, project_id, days_ago, iterVars,
                   ret, exit_status, attempted, outcomes, callVars, writes, retryVars>>

NextClock ==
    \/ Midnight
    \/ Launch(1)
    \/ ImportModule(1)
    \/ ValidateConfiguration(1)
    \/ GetGoogleSheetsService(1)
    \/ GetProjectId(1)
    \/ ForLoop(1)
    \/ ListSheetTabs(1)
    \/ GetRows(1)
    \/ GetCellValue(1)
    \/ GetCompletedTasks(1)
    \/ UpdateCell(1)
    \/ ScriptExit(1)

SpecClock == InitClock /\ [][NextClock]_vars

(***************************************************************************)
(* Properties of a run under a moving clock, checked under SpecClock.      *)
(***************************************************************************)
\* C17: the iteration for offset o targets the date o days before the UTC
\* date at which the run started, so that the seven iterations target seven
\* distinct, consecutive dates, also when midnight passes during the run.
C17_WindowOfStartDate ==
    (pc[1] \in IterationPcs \cup {"loop", "return"} /\ attempted[1] # <<>>) =>
        iso_date[1] = DateIso(FromOrdinal(ToOrdinal(ClockStart) - days_ago[1]))

\* what the code does: each iteration targets the date o days before the
\* clock's date at the time the iteration began
C17_CodeBehaviour ==
    (pc[1] \in IterationPcs \cup {"loop", "return"} /\ attempted[1] # <<>>) =>
        \E m \in 0..MaxMidnights :
            iso_date[1] = DateIso(FromOrdinal(ToOrdinal(ClockStart) + m - days_ago[1]))

\* midnight passed between the iterations for offsets 1 and 2: the second
\* iteration targets the date the first one targeted, 2 January 2024
C17_SameDateTwice ==
    /\ days_ago[1] = 2
    /\ pc[1] = "list_tabs"
    /\ utc_today # ClockStart
    /\ iso_date[1] = DateIso(FromOrdinal(ToOrdinal(ClockStart) - 1))
    /\ \E k \in 1..Len(writes) :
          /\ writes[k].days_ago = 1
          /\ writes[k].range = <<"J", "a", "n", "-", "2", "4", "!", "E", "3">>

(***************************************************************************)
(* One run that is not killed: every remote invocation returns or raises   *)
(* and every sleep ends, so the run takes its next step as long as it has  *)
(* one.                                                                    *)
(***************************************************************************)
NextRun ==
    \/ Launch(1)
    \/ ImportModule(1)
    \/ ValidateConfiguration(1)
    \/ GetGoogleSheetsService(1)
    \/ GetProjectId(1)
    \/ ForLoop(1)
    \/ ListSheetTabs(1)
    \/ GetRows(1)
    \/ GetCellValue(1)
    \/ GetCompletedTasks(1)
    \/ UpdateCell(1)
    \/ ScriptExit(1)

SpecRun == Init /\ [][NextRun]_vars /\ WF_vars(NextRun)

(***************************************************************************)
(* Properties of termination, checked under SpecRun.                       *)
(***************************************************************************)
\* the requests of the call under way are at most three, a call is made at
\* most once per operation and iteration, and the project list is asked for
\* in one call
AttemptsBounded ==
    \A p \in Procs :
        /\ lastCalls[p] <= 3
        /\ attempt[p] < 3
        /\ \A i, j \in 1..Len(opsDone[p]) : opsDone[p][i] = opsDone[p][j] => i = j
        /\ attempted[p] = <<>> => Range(opsDone[p]) \subseteq {"projects"}
        /\ attempted[p] # <<>> => Range(opsDone[p]) \subseteq Range(DayOrder)
        /\ Len(attempted[p]) <= Len(Window)

\* main has returned after the whole window or by the fatal-error exit
MainReturned(p) ==
    /\ pc[p] = "return"
    /\ \/ ret[p] = 0 /\ attempted[p] = Window /\ Len(outcomes[p]) = Len(Window)
       \/ ret[p] = 1 /\ attempted[p] = <<>>

\* C19: no call makes more than three requests, the project list is asked
\* for in one call and each of the five operations in at most one call per
\* iteration; and a run that entered main reaches main's return, after all
\* seven iterations with 0 or by the fatal-error exit with 1, and then ends.
C19_Terminates ==
    /\ []AttemptsBounded
    /\ (pc[1] = "validate") ~> MainReturned(1)
    /\ (pc[1] = "import") ~> (pc[1] = "exited")

\* C19 witness: main has returned 0 after the seven iterations; in the last
\* one the tabs and the rows were fetched and the cell read was requested
\* three times and failed each time.
C19_Witness ==
    /\ MainReturned(1)
    /\ ret[1] = 0
    /\ Len(opsDone[1]) = 3
    /\ opsDone[1] = SubSeq(DayOrder, 1, 3)
    /\ lastCalls[1] = 3
    /\ okCalls[1] = 0
    /\ outcomes[1][7] = {"Failed"}

====
